---- MODULE Spec2Model ----
(***************************************************************************)
(* Orbit: the application tracker's ghost detector, its application        *)
(* service, the e-mail pipeline (quick filter, NLP analysis, pattern       *)
(* classifier, LLM fallback, e-mail -> application matcher), the insight   *)
(* generator, and the web client (Gmail leads hook, keyboard navigation,   *)
(* modals, auth store and guard, kanban board, add-application form).      *)
(*                                                                         *)
(* Time is counted in whole days.  Confidences are kept as integers in     *)
(* hundredths (0.9 is 90) because TLC has no reals.  Text is a sequence of *)
(* one-character strings.                                                  *)
(***************************************************************************)
EXTENDS Integers, Sequences, FiniteSets, Bags, TLC

VARIABLES
    now,            \* the clock, in days (datetime.now())
    apps,           \* applications table: id -> row
    events,         \* events table: a bag of rows
    sweep_runs,     \* sweeps that ran to completion since the last other operation
    sw,             \* per sweep worker: the ORM session of an invocation in flight
    stage,          \* where the message in the pipeline stands
    message,        \* the e-mail: subject, from_address, from_name, body_preview
    doc_ents,       \* the entities spaCy reports for the message
    open_apps,      \* the tracked applications passed to the matcher
    nlp,            \* analyze_email's return value
    classification, \* classify_email's return value
    match_result,   \* match_email_to_application's return value
    escalation,     \* the LLM call of the message: how it ended, what it returned
    portfolio,      \* the applications passed to generate_insights
    insights,       \* generate_insights' return value
    gmail,          \* a useGmail hook instance and the query cache it invalidates
    kbd,            \* list navigation, the command palette and the add modal
    auth,           \* auth store, its persisted copy, the API client, the router
    board,          \* the kanban board: cards, the drag in progress, requests
    form            \* the add-application form: fields, errors, requests

ghostVars == <<now, apps, events, sweep_runs, sw>>
mailVars == <<stage, message, doc_ents, open_apps, nlp, classification,
              match_result, escalation>>
insightVars == <<portfolio, insights>>
uiVars == <<gmail, kbd, auth, board, form>>
vars == <<now, apps, events, sweep_runs, sw, stage, message, doc_ents, open_apps,
          nlp, classification, match_result, escalation, portfolio, insights,
          gmail, kbd, auth, board, form>>

(***************************************************************************)
(* Bounds of the model.                                                    *)
(***************************************************************************)
MaxNow == 21
MaxEvents == 3
MaxLinks == 1
MaxSweepRuns == 2
MaxApps == 3
MaxPerWeek == 6
MaxRenders == 3
MaxInFlight == 1
MaxItems == 2
MaxUserActions == 2
MaxDrags == 2
MaxSubmits == 2

\* Inputs the operations draw from.
AppIds == {1, 2}
TickDays == {7}
ManualStatuses == {"screening", "interview", "ghosted"}
Workers == {"w1", "w2"}

(***************************************************************************)
(* applications / events schema                                            *)
(***************************************************************************)
allStatuses ==
    {"applied", "screening", "oa", "interview", "offer",
     "accepted", "rejected", "withdrawn", "ghosted"}

\* deleted_at IS NULL
NoTime == -1

\* timedelta(days=14)
GHOST_DAYS == 14

\* A row as INSERTed by create_application: the column defaults.
NewApplication(t) ==
    [status            |-> "applied",
     status_updated_at |-> t,
     deleted_at        |-> NoTime,
     linked_at         |-> {}]

CreatedEvent(id) ==
    [application_id |-> id, event_type |-> "created",
     data |-> [status |-> "applied"]]

StatusChangeEvent(id, old_status, new_status) ==
    [application_id |-> id, event_type |-> "status_change",
     data |-> [from |-> old_status, to |-> new_status]]

(***************************************************************************)
(* detect_ghosted_applications                                             *)
(***************************************************************************)
\* cutoff_date = datetime.now() - timedelta(days=14)
CutoffDate(t) == t - GHOST_DAYS

\* The WHERE clause of the query for stale applications.
IsStaleRowNoStatusFilter(row, cutoff) ==
    /\ row.status_updated_at < cutoff
    /\ row.deleted_at = NoTime

IsStaleRowInclusive(row, cutoff) ==
    /\ row.status \in {"applied", "screening"}
    /\ row.status_updated_at <= cutoff
    /\ row.deleted_at = NoTime

IsStaleRow(row, cutoff) ==
    /\ row.status \in {"applied", "screening"}
    /\ row.status_updated_at < cutoff
    /\ row.deleted_at = NoTime

\* ghosted.scalars().all()
SelectStale(table, cutoff) ==
    {a \in DOMAIN table : IsStaleRow(table[a], cutoff)}

\* app.status = 'ghosted'; app.status_updated_at = datetime.now()
MarkGhostedNotPersisted(row, t) == row

MarkGhosted(row, t) ==
    [row EXCEPT !.status = "ghosted", !.status_updated_at = t]

\* Event(application_id=app.id, event_type='auto_ghosted', data={...}): built
\* from the ORM object AFTER the loop body has assigned app.status.
AutoGhostedEvent(id, app) ==
    [application_id |-> id, event_type |-> "auto_ghosted",
     data |-> [reason |-> "No response for 14+ days",
               previous_status |-> app.status]]

\* The loop over ghosted_apps followed by commit(): the rows written back.
GhostedTable(table, ids, t) ==
    [a \in DOMAIN table |->
        IF a \in ids THEN MarkGhosted(table[a], t) ELSE table[a]]

\* The events the loop adds: one per selected application.
GhostEvents(table, ids, t) ==
    SetToBag({AutoGhostedEvent(a, MarkGhosted(table[a], t)) : a \in ids})

RECURSIVE SumOver(_, _)
SumOver(f, S) ==
    IF S = {} THEN 0
    ELSE LET x == CHOOSE y \in S : TRUE IN f[x] + SumOver(f, S \ {x})

\* Rows of application_emails.
LinkCount(table) ==
    SumOver([a \in DOMAIN table |-> Cardinality(table[a].linked_at)],
            DOMAIN table)

IdleSession == [pc |-> "idle", ghosted_apps |-> {}, at |-> NoTime]

(***************************************************************************)
(* Text: Python str as a sequence of one-character strings                 *)
(***************************************************************************)
UpperCase == <<"A","B","C","D","E","F","G","H","I","J","K","L","M",
               "N","O","P","Q","R","S","T","U","V","W","X","Y","Z">>
LowerCase == <<"a","b","c","d","e","f","g","h","i","j","k","l","m",
               "n","o","p","q","r","s","t","u","v","w","x","y","z">>
UpperSet == {UpperCase[i] : i \in 1..26}
LowerSet == {LowerCase[i] : i \in 1..26}
ToLower == [c \in UpperSet |-> LowerCase[CHOOSE i \in 1..26 : UpperCase[i] = c]]
ToUpper == [c \in LowerSet |-> UpperCase[CHOOSE i \in 1..26 : LowerCase[i] = c]]

IsCased(c) == c \in UpperSet \/ c \in LowerSet
LowerChar(c) == IF c \in UpperSet THEN ToLower[c] ELSE c
UpperChar(c) == IF c \in LowerSet THEN ToUpper[c] ELSE c

\* str.lower()
Lower(s) == SubSeq([i \in 1..Len(s) |-> LowerChar(s[i])], 1, Len(s))

\* str.title(): a cased character is upper-cased when it follows an uncased
\* one (or starts the string) and lower-cased otherwise.
Title(s) ==
    SubSeq([i \in 1..Len(s) |->
               IF i = 1 \/ ~IsCased(s[i - 1])
               THEN UpperChar(s[i]) ELSE LowerChar(s[i])],
           1, Len(s))

\* s[i:] and s[:j]
From(s, i) == SubSeq(s, i, Len(s))

\* needle occurs in s at position i
OccursAt(needle, s, i) ==
    /\ i >= 1
    /\ i + Len(needle) - 1 <= Len(s)
    /\ SubSeq(s, i, i + Len(needle) - 1) = needle

\* str.find(needle, start) + 1: the first position >= i, 0 when there is none
Find(needle, s, i) ==
    LET hits == {k \in i..(Len(s) - Len(needle) + 1) : OccursAt(needle, s, k)} IN
        IF hits = {} THEN 0 ELSE CHOOSE k \in hits : \A h \in hits : k <= h

\* needle in s
Contains(s, needle) == Find(needle, s, 1) > 0

\* f"{a} {b}"
Joined(a, b) == a \o <<" ">> \o b

IsSpace(c) == c \in {" ", "\n", "\t", "\r"}

\* len(s.split()): the maximal runs of non-whitespace characters
TokenCount(s) ==
    Cardinality({i \in 1..Len(s) :
                    ~IsSpace(s[i]) /\ (i = 1 \/ IsSpace(s[i - 1]))})

\* s.split(sep)[n] for a one-character sep, counting n from 0; NoStr when the
\* list is too short (IndexError).
NoStr == <<"None">>
RECURSIVE SplitAt(_, _, _)
SplitAt(s, sep, n) ==
    LET cut == Find(<<sep>>, s, 1) IN
        IF n = 0
        THEN IF cut = 0 THEN s ELSE SubSeq(s, 1, cut - 1)
        ELSE IF cut = 0 THEN NoStr ELSE SplitAt(From(s, cut + 1), sep, n - 1)

\* A field of the e-mail dict that is absent: its value is None (NoStr) or
\* the dict has no such key (NoKey).
NoKey == <<"KeyError">>
Absent(v) == v = NoStr \/ v = NoKey

\* f"{v}": None is formatted as the text None.
FStr(v) == IF v = NoStr THEN <<"N","o","n","e">> ELSE v

\* (v or '')
OrEmpty(v) == IF v = NoStr THEN <<>> ELSE v

(***************************************************************************)
(* re.search for the patterns of the table: literals and ".*"              *)
(***************************************************************************)
DotStar == <<".", "*">>

\* The literal pieces of a pattern, split at each ".*".
RECURSIVE Segments(_)
Segments(pattern) ==
    LET cut == Find(DotStar, pattern, 1) IN
        IF cut = 0 THEN <<pattern>>
        ELSE <<SubSeq(pattern, 1, cut - 1)>> \o Segments(From(pattern, cut + 2))

\* The lines of a text: "." matches any character but a newline.
RECURSIVE Lines(_)
Lines(s) ==
    LET cut == Find(<<"\n">>, s, 1) IN
        IF cut = 0 THEN {s}
        ELSE {SubSeq(s, 1, cut - 1)} \cup Lines(From(s, cut + 1))

\* The pieces occur in this order, without overlap, in the line from i on.
RECURSIVE SegmentsFrom(_, _, _)
SegmentsFrom(segs, line, i) ==
    IF segs = <<>> THEN TRUE
    ELSE LET at == Find(Head(segs), line, i) IN
            /\ at > 0
            /\ SegmentsFrom(Tail(segs), line, at + Len(Head(segs)))

\* re.search(pattern, text) is not None
RegexSearch(pattern, text) ==
    \E line \in Lines(text) : SegmentsFrom(Segments(pattern), line, 1)

(***************************************************************************)
(* Layer 1: quick_filter                                                   *)
(***************************************************************************)
BLOCKED_DOMAINS ==
    { <<"n","o","r","e","p","l","y">>,
      <<"n","e","w","s","l","e","t","t","e","r">>,
      <<"n","o","t","i","f","i","c","a","t","i","o","n","s">>,
      <<"m","a","r","k","e","t","i","n","g">>,
      <<"n","o","-","r","e","p","l","y">>,
      <<"d","o","n","o","t","r","e","p","l","y">>,
      <<"m","a","i","l","e","r">>,
      <<"u","p","d","a","t","e","s">>,
      <<"u","n","s","u","b","s","c","r","i","b","e">>,
      <<"p","r","o","m","o">>,
      <<"d","e","a","l","s">>,
      <<"o","f","f","e","r","s">> }

promo_patterns ==
    { <<"u","n","s","u","b","s","c","r","i","b","e">>,
      <<"n","e","w","s","l","e","t","t","e","r">>,
      <<"w","e","e","k","l","y"," ","d","i","g","e","s","t">>,
      <<"j","o","b"," ","a","l","e","r","t">>,
      <<"n","e","w"," ","j","o","b","s"," ","m","a","t","c","h","i","n","g">>,
      <<"s","a","l","e">>,
      <<"d","i","s","c","o","u","n","t">> }

\* quick_filter(email): True when the e-mail is to be processed further.
quick_filter(email) ==
    LET from_addr == Lower(email.from_address)
        subject   == Lower(email.subject)
    IN  /\ ~\E domain \in BLOCKED_DOMAINS : Contains(from_addr, domain)
        /\ ~\E p \in promo_patterns : Contains(subject, p)

\* quick_filter(email) raises: email['from_address'] is a KeyError and
\* None.lower() an AttributeError; the same for the subject, unless the loop
\* over BLOCKED_DOMAINS has returned before the subject is read.
quick_filter_raises(email) ==
    \/ Absent(email.from_address)
    \/ /\ ~\E domain \in BLOCKED_DOMAINS :
             Contains(Lower(email.from_address), domain)
       /\ Absent(email.subject)

(***************************************************************************)
(* Layer 2: analyze_email, analyze_sender                                  *)
(***************************************************************************)
JOB_KEYWORDS ==
    { <<"a","p","p","l","i","c","a","t","i","o","n">>,
      <<"i","n","t","e","r","v","i","e","w">>,
      <<"p","o","s","i","t","i","o","n">>,
      <<"r","o","l","e">>,
      <<"o","p","p","o","r","t","u","n","i","t","y">>,
      <<"r","e","c","r","u","i","t","e","r">>,
      <<"h","i","r","i","n","g">>,
      <<"a","s","s","e","s","s","m","e","n","t">>,
      <<"c","o","d","i","n","g">>,
      <<"o","f","f","e","r">>,
      <<"c","a","n","d","i","d","a","t","e">>,
      <<"r","e","s","u","m","e">>,
      <<"c","v">>,
      <<"n","e","x","t"," ","s","t","e","p","s">>,
      <<"s","c","r","e","e","n","i","n","g">> }

recruiter_patterns ==
    { <<"r","e","c","r","u","i","t","e","r">>,
      <<"t","a","l","e","n","t">>,
      <<"h","r">>,
      <<"h","i","r","i","n","g">>,
      <<"c","a","r","e","e","r","s">> }

company_patterns ==
    { <<"@","g","o","o","g","l","e",".","c","o","m">>,
      <<"@","m","e","t","a",".","c","o","m">>,
      <<"@","a","m","a","z","o","n",".","c","o","m">>,
      <<"@","m","i","c","r","o","s","o","f","t",".","c","o","m">> }

\* analyze_sender(email, name)
analyze_sender(address, name) ==
    LET email_lower == Lower(address)
        name_lower  == Lower(OrEmpty(name))
    IN  [is_recruiter |->
             \E p \in recruiter_patterns :
                 Contains(email_lower, p) \/ Contains(name_lower, p),
         is_big_tech |->
             \E p \in company_patterns : Contains(email_lower, p),
         is_automated |->
             \/ Contains(email_lower, <<"n","o","r","e","p","l","y">>)
             \/ Contains(email_lower, <<"d","o","n","o","t","r","e","p","l","y">>)]

\* analyze_sender raises: email.lower() on None.
analyze_sender_raises(address, name) == address = NoStr

\* analyze_email raises: a missing key in the f-string or in the call of
\* analyze_sender, or analyze_sender raising.
analyze_email_raises(email) ==
    \/ email.subject = NoKey
    \/ email.body_preview = NoKey
    \/ email.from_address = NoKey
    \/ email.from_name = NoKey
    \/ analyze_sender_raises(email.from_address, email.from_name)

\* keyword_count >= 2 or sender_signals['is_recruiter']
IsLikelyJobRelatedStrict(keyword_count, is_recruiter) ==
    keyword_count > 2 \/ is_recruiter

IsLikelyJobRelated(keyword_count, is_recruiter) ==
    keyword_count >= 2 \/ is_recruiter

\* analyze_email(email); ents is what nlp(text).ents holds, by label.
analyze_email(email, ents) ==
    LET text           == Joined(FStr(email.subject), FStr(email.body_preview))
        text_lower     == Lower(text)
        keyword_count  == Cardinality({kw \in JOB_KEYWORDS :
                                          Contains(text_lower, kw)})
        sender_signals == analyze_sender(email.from_address, email.from_name)
    IN  [entities       |-> ents,
         keyword_count  |-> keyword_count,
         keyword_density |->
             [num |-> keyword_count,
              den |-> IF TokenCount(text) > 1 THEN TokenCount(text) ELSE 1],
         sender_signals |-> sender_signals,
         is_likely_job_related |->
             IsLikelyJobRelated(keyword_count, sender_signals.is_recruiter)]

(***************************************************************************)
(* Layer 3: classify_email                                                 *)
(***************************************************************************)
\* PATTERNS, in the insertion order of the dict.
PATTERNS ==
    <<
      [category |-> "application_received",
       patterns |->
          << <<"a","p","p","l","i","c","a","t","i","o","n",".","*","r","e","c","e","i","v","e","d">>,
             <<"t","h","a","n","k",".","*","f","o","r",".","*","a","p","p","l","y","i","n","g">>,
             <<"w","e",".","*","r","e","c","e","i","v","e","d",".","*","y","o","u","r",".","*","a","p","p","l","i","c","a","t","i","o","n">>,
             <<"a","p","p","l","i","c","a","t","i","o","n",".","*","s","u","b","m","i","t","t","e","d">> >>],
      [category |-> "application_rejected",
       patterns |->
          << <<"u","n","f","o","r","t","u","n","a","t","e","l","y">>,
             <<"n","o","t",".","*","m","o","v","i","n","g"," ","f","o","r","w","a","r","d">>,
             <<"d","e","c","i","d","e","d",".","*","n","o","t",".","*","p","r","o","c","e","e","d">>,
             <<"o","t","h","e","r"," ","c","a","n","d","i","d","a","t","e","s">>,
             <<"n","o","t",".","*","s","e","l","e","c","t","e","d">>,
             <<"w","i","l","l"," ","n","o","t"," ","b","e"," ","m","o","v","i","n","g"," ","f","o","r","w","a","r","d">> >>],
      [category |-> "interview_invite",
       patterns |->
          << <<"i","n","t","e","r","v","i","e","w">>,
             <<"s","c","h","e","d","u","l","e",".","*","c","a","l","l">>,
             <<"m","e","e","t",".","*","t","e","a","m">>,
             <<"n","e","x","t",".","*","r","o","u","n","d">>,
             <<"p","h","o","n","e",".","*","s","c","r","e","e","n">>,
             <<"v","i","d","e","o",".","*","c","a","l","l">> >>],
      [category |-> "assessment_invite",
       patterns |->
          << <<"o","n","l","i","n","e",".","*","a","s","s","e","s","s","m","e","n","t">>,
             <<"c","o","d","i","n","g",".","*","c","h","a","l","l","e","n","g","e">>,
             <<"h","a","c","k","e","r","r","a","n","k">>,
             <<"c","o","d","e","s","i","g","n","a","l">>,
             <<"t","e","c","h","n","i","c","a","l",".","*","a","s","s","e","s","s","m","e","n","t">>,
             <<"c","o","m","p","l","e","t","e",".","*","t","e","s","t">> >>],
      [category |-> "offer_letter",
       patterns |->
          << <<"o","f","f","e","r",".","*","l","e","t","t","e","r">>,
             <<"p","l","e","a","s","e","d",".","*","t","o",".","*","o","f","f","e","r">>,
             <<"e","x","t","e","n","d",".","*","o","f","f","e","r">>,
             <<"c","o","n","g","r","a","t","u","l","a","t","i","o","n","s",".","*","o","f","f","e","r">> >>]
    >>

\* confidence = 0.9 if len(pattern) > 20 else 0.8
PatternConfidence(pattern) == IF Len(pattern) > 20 THEN 90 ELSE 80

\* The inner loop: the index of the first pattern of the list that matches
\* from index j on, 0 when none does.
RECURSIVE LastMatching(_, _, _)
LastMatching(patterns, text, j) ==
    IF j > Len(patterns) THEN 0
    ELSE LET later == LastMatching(patterns, text, j + 1) IN
            IF later > 0 THEN later
            ELSE IF RegexSearch(patterns[j], text) THEN j ELSE 0

RECURSIVE FirstMatching(_, _, _)
FirstMatching(patterns, text, j) ==
    IF j > Len(patterns) THEN 0
    ELSE IF RegexSearch(patterns[j], text) THEN j
    ELSE FirstMatching(patterns, text, j + 1)

\* The outer loop from category k on, then the fallback.
RECURSIVE ClassifyFrom(_, _, _)
ClassifyFrom(k, text, nlp_result) ==
    IF k > Len(PATTERNS)
    THEN IF nlp_result.is_likely_job_related
         THEN [category |-> "general_hr", confidence |-> 60]
         ELSE [category |-> "not_job_related", confidence |-> 80]
    ELSE LET j == FirstMatching(PATTERNS[k].patterns, text, 1) IN
            IF j > 0
            THEN [category   |-> PATTERNS[k].category,
                  confidence |-> PatternConfidence(PATTERNS[k].patterns[j])]
            ELSE ClassifyFrom(k + 1, text, nlp_result)

\* classify_email(email, nlp_result)
classify_email(email, nlp_result) ==
    ClassifyFrom(1, Lower(Joined(FStr(email.subject), FStr(email.body_preview))),
                 nlp_result)

(***************************************************************************)
(* LLM fallback: classify_with_llm                                         *)
(***************************************************************************)
\* The categories SYSTEM_PROMPT asks the model to choose from.
SYSTEM_PROMPT ==
    {"application_received", "application_rejected", "interview_invite",
     "assessment_invite", "offer_letter", "follow_up", "not_job_related"}

\* What the remote call can come to.  kind "ok": the completion arrived and
\* json.loads parsed it into the category and confidence given (nothing makes
\* the model keep to the prompt: it may name another category or give the
\* confidence in percent); "malformed": the content is not JSON;
\* "timeout", "service_error": client.chat.completions.create raised.
LLMResponses ==
    { [kind |-> "ok", category |-> "follow_up", confidence |-> 70],
      [kind |-> "ok", category |-> "not_job_related", confidence |-> 90],
      [kind |-> "ok", category |-> "interview", confidence |-> 90],
      [kind |-> "ok", category |-> "offer_letter", confidence |-> 8500],
      [kind |-> "malformed", category |-> "none", confidence |-> 0],
      [kind |-> "timeout", category |-> "none", confidence |-> 0],
      [kind |-> "service_error", category |-> "none", confidence |-> 0] }

\* The try block raises: the call or json.loads fails, or the message of the
\* request cannot be built (a missing key, None[:500]).
classify_with_llm_fails(email, response) ==
    \/ email.subject = NoKey
    \/ Absent(email.body_preview)
    \/ response.kind # "ok"

\* classify_with_llm(email): the parsed result, and in the except branch
\* {"category": "unknown", "confidence": 0, "reason": "LLM error"}.
classify_with_llm(email, response) ==
    IF classify_with_llm_fails(email, response)
    THEN [category |-> "unknown", confidence |-> 0]
    ELSE [category |-> response.category, confidence |-> response.confidence]

\* The fallback is invoked when the pattern classifier's confidence is below
\* the threshold.
EscalationThreshold == 65
NeedsEscalation(result) == result.confidence < EscalationThreshold

(***************************************************************************)
(* match_email_to_application                                              *)
(***************************************************************************)
EMAIL_PROVIDERS ==
    { <<"g","m","a","i","l">>,
      <<"y","a","h","o","o">>,
      <<"o","u","t","l","o","o","k">>,
      <<"h","o","t","m","a","i","l">> }

\* extract_company_from_email(email): NoStr is None.
ExtractCompanyWholeDomain(address) ==
    LET part == SplitAt(address, "@", 1) IN
        IF part = NoStr THEN NoStr
        ELSE IF SplitAt(part, ".", 0) \in EMAIL_PROVIDERS THEN NoStr
        ELSE Title(part)

extract_company_from_email(address) ==
    LET part == SplitAt(address, "@", 1) IN
        IF part = NoStr THEN NoStr
        ELSE LET domain == SplitAt(part, ".", 0) IN
                IF domain \in EMAIL_PROVIDERS THEN NoStr ELSE Title(domain)

\* The longest common subsequence of two strings.
RECURSIVE LCSLen(_, _)
LCSLen(a, b) ==
    IF a = <<>> \/ b = <<>> THEN 0
    ELSE IF Head(a) = Head(b) THEN 1 + LCSLen(Tail(a), Tail(b))
    ELSE LET x == LCSLen(Tail(a), b)
             y == LCSLen(a, Tail(b))
         IN  IF x >= y THEN x ELSE y

\* fuzz.ratio(a, b): the normalised Indel similarity, 0..100, as the fraction
\* num / den.
FuzzRatio(a, b) ==
    IF Len(a) + Len(b) = 0 THEN [num |-> 100, den |-> 1]
    ELSE [num |-> 200 * LCSLen(a, b), den |-> Len(a) + Len(b)]

\* x > y for fractions with positive denominators
Greater(x, y) == x.num * y.den > y.num * x.den

FuzzThreshold == [num |-> 70, den |-> 1]

NoId == 0
NoMatch == [id |-> NoId, confidence |-> [num |-> 0, den |-> 1]]

\* email_companies: the lower-cased organisations plus the sender's domain.
EmailCompanies(email, nlp_result) ==
    LET orgs == nlp_result.entities.organizations
        sender_domain == extract_company_from_email(email.from_address)
    IN  {Lower(orgs[i]) : i \in 1..Len(orgs)}
        \cup (IF sender_domain # NoStr /\ sender_domain # <<>>
              THEN {Lower(sender_domain)} ELSE {})

\* The inner loop over email_companies for one application: best is
\* (best_match, best_score) before it and the result is the pair after it.
FuzzyBestLastWins(app, companies, best) ==
    LET app_company == Lower(app.company_name)
        better == {c \in companies :
                      /\ ~Greater(best.score, FuzzRatio(app_company, c))
                      /\ Greater(FuzzRatio(app_company, c), FuzzThreshold)}
    IN  IF better = {} THEN best
        ELSE LET top == CHOOSE c \in better :
                            \A d \in better :
                                ~Greater(FuzzRatio(app_company, d),
                                         FuzzRatio(app_company, c))
             IN  [id |-> app.id, score |-> FuzzRatio(app_company, top)]

FuzzyBest(app, companies, best) ==
    LET app_company == Lower(app.company_name)
        better == {c \in companies :
                      /\ Greater(FuzzRatio(app_company, c), best.score)
                      /\ Greater(FuzzRatio(app_company, c), FuzzThreshold)}
    IN  IF better = {} THEN best
        ELSE LET top == CHOOSE c \in better :
                            \A d \in better :
                                ~Greater(FuzzRatio(app_company, d),
                                         FuzzRatio(app_company, c))
             IN  [id |-> app.id, score |-> FuzzRatio(app_company, top)]

\* The loop over applications from index i on, then the final return.
RECURSIVE MatchFromNoDirectMatch(_, _, _, _)
MatchFromNoDirectMatch(i, applications, companies, best) ==
    IF i > Len(applications)
    THEN IF best.id # NoId
         THEN [id |-> best.id,
               confidence |-> [num |-> best.score.num,
                               den |-> best.score.den * 100]]
         ELSE NoMatch
    ELSE MatchFromNoDirectMatch(i + 1, applications, companies,
                                FuzzyBest(applications[i], companies, best))

RECURSIVE MatchFrom(_, _, _, _)
MatchFrom(i, applications, companies, best) ==
    IF i > Len(applications)
    THEN IF best.id # NoId
         THEN [id |-> best.id,
               confidence |-> [num |-> best.score.num,
                               den |-> best.score.den * 100]]
         ELSE NoMatch
    ELSE IF Lower(applications[i].company_name) \in companies
         THEN [id |-> applications[i].id,
               confidence |-> [num |-> 95, den |-> 100]]
         ELSE MatchFrom(i + 1, applications, companies,
                        FuzzyBest(applications[i], companies, best))

match_email_to_application(email, applications, nlp_result) ==
    MatchFrom(1, applications, EmailCompanies(email, nlp_result),
              [id |-> NoId, score |-> [num |-> 0, den |-> 1]])

(***************************************************************************)
(* The e-mail pipeline on one message                                      *)
(***************************************************************************)
Subjects ==
    { <<"I","n","t","e","r","v","i","e","w"," ","R","e","q","u","e","s","t"," ","-"," ","S","W","E"," ","I","n","t","e","r","n">>,
      <<"T","h","a","n","k"," ","y","o","u"," ","f","o","r"," ","a","p","p","l","y","i","n","g">>,
      <<"Y","o","u","r"," ","a","p","p","l","i","c","a","t","i","o","n"," ","w","a","s"," ","r","e","c","e","i","v","e","d">>,
      <<"W","e","e","k","l","y"," ","d","i","g","e","s","t",":"," ","n","e","w"," ","r","o","l","e","s">>,
      <<"H","e","l","l","o">>,
      <<"Y","o","u","r"," ","o","f","f","e","r"," ","l","e","t","t","e","r">>,
      <<"O","p","e","n"," ","p","o","s","i","t","i","o","n"," ","-"," ","n","e","w"," ","r","o","l","e">>,
      <<"R","e","s","u","m","e","/","C","V">>,
      <<>> }

Previews ==
    { <<"W","e","'","d"," ","l","i","k","e"," ","t","o"," ","s","c","h","e","d","u","l","e"," ","a"," ","c","a","l","l",".",".",".">>,
      <<"U","n","f","o","r","t","u","n","a","t","e","l","y",","," ","w","e"," ","w","i","l","l"," ","n","o","t"," ","b","e"," ","m","o","v","i","n","g"," ","f","o","r","w","a","r","d">>,
      <<>>,
      <<"A","p","p","l","i","c","a","t","i","o","n"," ","s","u","b","m","i","t","t","e","d","."," ","P","l","e","a","s","e"," ","c","o","m","p","l","e","t","e"," ","t","h","e"," ","o","n","l","i","n","e"," ","a","s","s","e","s","s","m","e","n","t">>,
      <<"P","l","e","a","s","e"," ","s","c","h","e","d","u","l","e","\n","a"," ","c","a","l","l">>,
      <<"N","e","x","t"," ","s","t","e","p","s",":"," ","c","o","d","i","n","g">> }

Senders ==
    { <<"r","e","c","r","u","i","t","i","n","g","@","a","c","m","e",".","c","o","m">>,
      <<"n","o","r","e","p","l","y","@","l","i","n","k","e","d","i","n",".","c","o","m">>,
      <<"h","r","@","g","l","o","b","e","x",".","i","o">>,
      <<"j","a","n","e","@","g","m","a","i","l",".","c","o","m">> }

SenderNames ==
    { <<>>,
      <<"T","a","l","e","n","t"," ","T","e","a","m">> }

Emails ==
    [subject : Subjects, from_address : Senders, from_name : SenderNames,
     body_preview : Previews]

\* What spaCy's doc.ents may hold for a message, by label.
NoEntities == [organizations |-> <<>>, persons |-> <<>>, dates |-> <<>>]
EntityOutcomes ==
    { NoEntities,
      [organizations |-> << <<"A","c","m","e">> >>, persons |-> <<>>, dates |-> <<>>],
      [organizations |-> << <<"G","l","o","b","e","x"," ","C","o","r","p">> >>,
       persons |-> << <<"J","a","n","e">> >>, dates |-> << <<"M","o","n","d","a","y">> >>] }

\* The caller's tracked applications, as passed to the matcher.
ApplicationLists ==
    { <<>>,
      << [id |-> 1, company_name |-> <<"A","c","m","e">>, status |-> "applied"] >>,
      << [id |-> 1, company_name |-> <<"G","l","o","b","e","x"," ","I","n","c">>, status |-> "screening"],
         [id |-> 2, company_name |-> <<"A","c","m","e">>, status |-> "applied"] >> }

NoEmail == [subject |-> <<>>, from_address |-> <<>>, from_name |-> <<>>,
            body_preview |-> <<>>]
NoNlpResult ==
    [entities |-> NoEntities, keyword_count |-> 0,
     keyword_density |-> [num |-> 0, den |-> 1],
     sender_signals |-> [is_recruiter |-> FALSE, is_big_tech |-> FALSE,
                         is_automated |-> FALSE],
     is_likely_job_related |-> FALSE]
NoClassification == [category |-> "none", confidence |-> 0]
NoEscalation == [outcome |-> "not_called", result |-> NoClassification]

\* Messages with an absent field: each field of a complete message in turn,
\* None or missing; a blocked sender with no subject; a message of no
\* pattern with no preview.
CompleteEmail ==
    [subject |-> <<"I","n","t","e","r","v","i","e","w"," ","R","e","q","u","e","s","t"," ","-"," ","S","W","E"," ","I","n","t","e","r","n">>,
     from_address |-> <<"r","e","c","r","u","i","t","i","n","g","@","a","c","m","e",".","c","o","m">>,
     from_name |-> <<"T","a","l","e","n","t"," ","T","e","a","m">>,
     body_preview |-> <<"W","e","'","d"," ","l","i","k","e"," ","t","o"," ","s","c","h","e","d","u","l","e"," ","a"," ","c","a","l","l",".",".",".">>]
MalformedEmails ==
    UNION { { [CompleteEmail EXCEPT !.subject = v],
              [CompleteEmail EXCEPT !.from_address = v],
              [CompleteEmail EXCEPT !.from_name = v],
              [CompleteEmail EXCEPT !.body_preview = v],
              [CompleteEmail EXCEPT
                  !.subject = v,
                  !.from_address = <<"n","o","r","e","p","l","y","@","l","i","n","k","e","d","i","n",".","c","o","m">>],
              [CompleteEmail EXCEPT
                  !.subject = <<"O","p","e","n"," ","p","o","s","i","t","i","o","n"," ","-"," ","n","e","w"," ","r","o","l","e">>,
                  !.body_preview = v],
              [CompleteEmail EXCEPT
                  !.subject = <<"W","e","e","k","l","y"," ","d","i","g","e","s","t",":"," ","n","e","w"," ","r","o","l","e","s">>,
                  !.from_address = v] } : v \in {NoStr, NoKey} }

\* The web client is not loaded while the server side is exercised.
UiIdle ==
    /\ gmail = <<>>
    /\ kbd = <<>>
    /\ auth = <<>>
    /\ board = <<>>
    /\ form = <<>>

(***************************************************************************)
(* Initial state: an empty database, the clock at day 0.                   *)
(***************************************************************************)
Init ==
    /\ UiIdle
    /\ now = 0
    /\ apps = <<>>
    /\ events = EmptyBag
    /\ sweep_runs = 0
    /\ sw = [w \in Workers |-> IdleSession]
    /\ stage = "idle"
    /\ message = NoEmail
    /\ doc_ents = NoEntities
    /\ open_apps = <<>>
    /\ nlp = NoNlpResult
    /\ classification = NoClassification
    /\ match_result = NoMatch
    /\ escalation = NoEscalation
    /\ portfolio = <<>>
    /\ insights = <<>>

(***************************************************************************)
(* Operations                                                              *)
(***************************************************************************)
Tick ==
    \E d \in TickDays :
        /\ now + d <= MaxNow
        /\ now' = now + d
        /\ sweep_runs' = 0
        /\ UNCHANGED <<uiVars, apps, events, sw, mailVars, insightVars>>

\* ApplicationService.create_application
CreateApplication ==
    \E a \in {Cardinality(DOMAIN apps) + 1} \cap AppIds :
        /\ BagCardinality(events) < MaxEvents
        /\ apps' = [x \in DOMAIN apps \cup {a} |->
                       IF x = a THEN NewApplication(now) ELSE apps[x]]
        /\ events' = events (+) SetToBag({CreatedEvent(a)})
        /\ sweep_runs' = 0
        /\ UNCHANGED <<uiVars, now, sw, mailVars, insightVars>>

\* handleStatusChange -> updateStatus -> ApplicationService.update_status:
\* the dropdown offers every status, the service validates no transition.
UpdateStatus ==
    \E a \in DOMAIN apps, new_status \in ManualStatuses :
        /\ BagCardinality(events) < MaxEvents
        /\ apps' = [apps EXCEPT ![a].status = new_status,
                                ![a].status_updated_at = now]
        /\ events' = events (+)
               SetToBag({StatusChangeEvent(a, apps[a].status, new_status)})
        /\ sweep_runs' = 0
        /\ UNCHANGED <<uiVars, now, sw, mailVars, insightVars>>

\* Repository delete: a soft delete.
DeleteApplication ==
    \E a \in DOMAIN apps :
        /\ apps[a].deleted_at = NoTime
        /\ apps' = [apps EXCEPT ![a].deleted_at = now]
        /\ sweep_runs' = 0
        /\ UNCHANGED <<uiVars, now, events, sw, mailVars, insightVars>>

\* POST /emails/:id/link: a row of application_emails, linked_at DEFAULT NOW().
LinkEmail ==
    \E a \in DOMAIN apps :
        /\ LinkCount(apps) < MaxLinks
        /\ now \notin apps[a].linked_at
        /\ apps' = [apps EXCEPT ![a].linked_at = @ \cup {now}]
        /\ sweep_runs' = 0
        /\ UNCHANGED <<uiVars, now, events, sw, mailVars, insightVars>>

\* run_ghost_detection -> detect_ghosted_applications, run to completion.
Sweep ==
    LET ghosted_apps == SelectStale(apps, CutoffDate(now)) IN
        /\ sweep_runs < MaxSweepRuns
        /\ apps' = GhostedTable(apps, ghosted_apps, now)
        /\ events' = events (+) GhostEvents(apps, ghosted_apps, now)
        /\ sweep_runs' = sweep_runs + 1
        /\ UNCHANGED <<uiVars, now, sw, mailVars, insightVars>>

Next ==
    \/ Tick
    \/ CreateApplication
    \/ UpdateStatus
    \/ DeleteApplication
    \/ LinkEmail
    \/ Sweep

Spec == Init /\ [][Next]_vars

(***************************************************************************)
(* Two invocations of run_ghost_detection in flight at once.  The function *)
(* awaits twice: on the SELECT and on commit(); the loop between them runs *)
(* on the session's objects and reaches the database only at commit.       *)
(***************************************************************************)
\* await db_session.execute(select ...), then the loop on the loaded objects.
SweepSelect(w) ==
    /\ sw[w].pc = "idle"
    /\ sw' = [sw EXCEPT ![w] =
                 [pc |-> "selected",
                  ghosted_apps |-> SelectStale(apps, CutoffDate(now)),
                  at |-> now]]
    /\ UNCHANGED <<uiVars, now, apps, events, sweep_runs, mailVars, insightVars>>

\* await db_session.commit(): UPDATE ... WHERE id = ?, INSERT INTO events.
SweepCommit(w) ==
    /\ sw[w].pc = "selected"
    /\ apps' = GhostedTable(apps, sw[w].ghosted_apps, sw[w].at)
    /\ events' = events (+) GhostEvents(apps, sw[w].ghosted_apps, sw[w].at)
    /\ sw' = [sw EXCEPT ![w] = IdleSession]
    /\ UNCHANGED <<uiVars, now, sweep_runs, mailVars, insightVars>>

NextConc ==
    \/ Tick
    \/ CreateApplication
    \/ UpdateStatus
    \/ \E w \in Workers : SweepSelect(w)
    \/ \E w \in Workers : SweepCommit(w)

SpecConc == Init /\ [][NextConc]_vars

(***************************************************************************)
(* The pipeline, one message at a time: Layer 1 -> Layer 2 -> Layer 3 ->   *)
(* auto-match.                                                             *)
(***************************************************************************)
InitMail ==
    /\ UiIdle
    /\ now = 0
    /\ apps = <<>>
    /\ events = EmptyBag
    /\ sweep_runs = 0
    /\ sw = [w \in Workers |-> IdleSession]
    /\ stage = "received"
    /\ message \in Emails \cup MalformedEmails
    /\ doc_ents \in EntityOutcomes
    /\ open_apps \in ApplicationLists
    /\ nlp = NoNlpResult
    /\ classification = NoClassification
    /\ match_result = NoMatch
    /\ escalation = NoEscalation
    /\ portfolio = <<>>
    /\ insights = <<>>

\* Layer 1.  An exception ends the processing of the message.
QuickFilter ==
    /\ stage = "received"
    /\ stage' = IF quick_filter_raises(message) THEN "raised"
                ELSE IF quick_filter(message) THEN "filtered" ELSE "dropped"
    /\ UNCHANGED <<uiVars, ghostVars, insightVars, message, doc_ents, open_apps, nlp,
                   classification, match_result, escalation>>

\* Layer 2, for a message that passed Layer 1.
Analyze ==
    /\ stage = "filtered"
    /\ IF analyze_email_raises(message)
       THEN /\ stage' = "raised"
            /\ nlp' = nlp
       ELSE /\ stage' = "analyzed"
            /\ nlp' = analyze_email(message, doc_ents)
    /\ UNCHANGED <<uiVars, ghostVars, insightVars, message, doc_ents, open_apps,
                   classification, match_result, escalation>>

\* Layer 3: pattern matching.
Classify ==
    /\ stage = "analyzed"
    /\ classification' = classify_email(message, nlp)
    /\ stage' = "classified"
    /\ UNCHANGED <<uiVars, ghostVars, insightVars, message, doc_ents, open_apps, nlp,
                   match_result, escalation>>

\* Layer 3: the LLM for the edge cases.
Escalate ==
    /\ stage = "classified"
    /\ NeedsEscalation(classification)
    /\ \E response \in LLMResponses :
          escalation' =
              [outcome |-> IF classify_with_llm_fails(message, response)
                           THEN IF response.kind = "ok" THEN "bad_request"
                                ELSE response.kind
                           ELSE "ok",
               result  |-> classify_with_llm(message, response)]
    /\ stage' = "escalated"
    /\ UNCHANGED <<uiVars, ghostVars, insightVars, message, doc_ents, open_apps, nlp,
                   classification, match_result>>

\* Auto-match of the classified e-mail.
Match ==
    /\ \/ stage = "escalated"
       \/ stage = "classified" /\ ~NeedsEscalation(classification)
    /\ match_result' = match_email_to_application(message, open_apps, nlp)
    /\ stage' = "matched"
    /\ UNCHANGED <<uiVars, ghostVars, insightVars, message, doc_ents, open_apps, nlp,
                   classification, escalation>>

NextMail ==
    \/ QuickFilter
    \/ Analyze
    \/ Classify
    \/ Escalate
    \/ Match

SpecMail == InitMail /\ [][NextMail]_vars

(***************************************************************************)
(* The matcher on its own: a classified message, the organisations found   *)
(* in it, and up to MaxApps tracked applications.                          *)
(***************************************************************************)
MatchEmails ==
    { [subject |-> <<"I","n","t","e","r","v","i","e","w"," ","R","e","q","u","e","s","t">>,
       from_address |-> a, from_name |-> <<>>, body_preview |-> <<>>] :
        a \in { <<"r","e","c","r","u","i","t","i","n","g","@","a","c","m","e",".","c","o","m">>,
                <<"j","a","n","e","@","g","m","a","i","l",".","c","o","m">> } }

MatchEntityOutcomes ==
    { [organizations |-> o, persons |-> <<>>, dates |-> <<>>] :
        o \in { <<>>,
                << <<"A","c","m","e">> >>,
                << <<"N","i","m","b","u","s"," ","I","n","c">> >>,
                << <<"A","C","M","E">>, <<"N","i","m","b","u","s"," ","I","n","c">> >> } }

CompanyNames ==
    { <<"A","c","m","e">>, <<"A","c","m","e","x">>,
      <<"N","i","m","b","u","s"," ","L","a","b">>,
      <<"N","i","m","b","u","s"," ","I","n",".">> }

\* The lists of 0..MaxApps applications with company names of the set above,
\* numbered in list order.
MatchApplicationLists ==
    UNION { { [i \in 1..n |->
                 [id |-> i, company_name |-> names[i], status |-> "applied"]] :
              names \in [1..n -> CompanyNames] } : n \in 0..MaxApps }

InitMatch ==
    /\ UiIdle
    /\ now = 0
    /\ apps = <<>>
    /\ events = EmptyBag
    /\ sweep_runs = 0
    /\ sw = [w \in Workers |-> IdleSession]
    /\ stage = "classified"
    /\ message \in MatchEmails
    /\ doc_ents \in MatchEntityOutcomes
    /\ open_apps \in MatchApplicationLists
    /\ nlp = analyze_email(message, doc_ents)
    /\ classification = classify_email(message, nlp)
    /\ match_result = NoMatch
    /\ escalation = NoEscalation
    /\ portfolio = <<>>
    /\ insights = <<>>

NextMatch == Match

SpecMatch == InitMatch /\ [][NextMatch]_vars

(***************************************************************************)
(* generate_insights.  An application is its status, source and            *)
(* applied_date (a day); a rate is the fraction num / den.                 *)
(***************************************************************************)
\* x > y for the fractions x and y, y.den > 0; a zero denominator on the left
\* is Python's ZeroDivisionError and is excluded by the callers.
RateAbove(x, y) == x.num * y.den > y.num * x.den

\* The sources in the order of their first application: the keys of stats.
RECURSIVE SourceOrder(_)
SourceOrder(applications) ==
    IF applications = <<>> THEN <<>>
    ELSE LET front == SourceOrder(SubSeq(applications, 1, Len(applications) - 1))
             src   == applications[Len(applications)].source
         IN  IF \E k \in 1..Len(front) : front[k] = src
             THEN front ELSE Append(front, src)

\* calculate_source_performance(applications)
calculate_source_performance(applications) ==
    LET keys == SourceOrder(applications)
        of(src) == {k \in 1..Len(applications) : applications[k].source = src}
        responded(src) ==
            Cardinality({k \in of(src) :
                            applications[k].status \notin {"applied", "ghosted"}})
    IN  [k \in 1..Len(keys) |->
            [source    |-> keys[k],
             total     |-> Cardinality(of(keys[k])),
             responded |-> responded(keys[k]),
             response_rate |->
                 [num |-> responded(keys[k]),
                  den |-> Cardinality(of(keys[k]))]]]

\* max(source_stats.items(), key=response_rate): the first of the greatest.
BestSource(source_stats) ==
    source_stats[CHOOSE k \in 1..Len(source_stats) :
        /\ \A j \in 1..Len(source_stats) :
              ~RateAbove(source_stats[j].response_rate,
                         source_stats[k].response_rate)
        /\ \A j \in 1..(k - 1) :
              RateAbove(source_stats[k].response_rate,
                        source_stats[j].response_rate)]

\* Insight 1: best performing source.
SourceInsight(applications) ==
    LET source_stats == calculate_source_performance(applications) IN
        IF source_stats = <<>> THEN <<>>
        ELSE << [title |-> "Referrals work best for you",
                 type  |-> "success",
                 about |-> BestSource(source_stats).source] >>

\* Insight 2: ghosted warning, ghosted_rate > 0.3.
GhostInsightAboveHalf(applications) ==
    LET ghosted_count ==
            Cardinality({k \in 1..Len(applications) :
                            applications[k].status = "ghosted"})
    IN  IF RateAbove([num |-> ghosted_count, den |-> Len(applications)],
                     [num |-> 5, den |-> 10])
        THEN << [title |-> "High ghost rate", type |-> "warning",
                 about |-> "ghosted"] >>
        ELSE <<>>

GhostInsight(applications) ==
    LET ghosted_count ==
            Cardinality({k \in 1..Len(applications) :
                            applications[k].status = "ghosted"})
    IN  IF RateAbove([num |-> ghosted_count, den |-> Len(applications)],
                     [num |-> 3, den |-> 10])
        THEN << [title |-> "High ghost rate", type |-> "warning",
                 about |-> "ghosted"] >>
        ELSE <<>>

\* The applied_date lies in the current 7-day window, in the one before it.
is_this_week(applied_date, today) ==
    today - applied_date >= 0 /\ today - applied_date < 7
is_last_week(applied_date, today) ==
    today - applied_date >= 7 /\ today - applied_date < 14

\* Insight 3: weekly momentum.
MomentumInsightNoFloor(applications, today) ==
    LET this_week == Cardinality({k \in 1..Len(applications) :
                         is_this_week(applications[k].applied_date, today)})
        last_week == Cardinality({k \in 1..Len(applications) :
                         is_last_week(applications[k].applied_date, today)})
    IN  IF this_week > last_week
        THEN << [title |-> "Great momentum!", type |-> "success",
                 about |-> "week"] >>
        ELSE IF this_week < last_week
        THEN << [title |-> "Keep the momentum", type |-> "tip",
                 about |-> "week"] >>
        ELSE <<>>

MomentumInsight(applications, today) ==
    LET this_week == Cardinality({k \in 1..Len(applications) :
                         is_this_week(applications[k].applied_date, today)})
        last_week == Cardinality({k \in 1..Len(applications) :
                         is_last_week(applications[k].applied_date, today)})
    IN  IF this_week > last_week
        THEN << [title |-> "Great momentum!", type |-> "success",
                 about |-> "week"] >>
        ELSE IF this_week < last_week /\ this_week < 5
        THEN << [title |-> "Keep the momentum", type |-> "tip",
                 about |-> "week"] >>
        ELSE <<>>

\* The share of the applications that are in the interview status.
calculate_interview_rate(applications) ==
    [num |-> Cardinality({k \in 1..Len(applications) :
                             applications[k].status = "interview"}),
     den |-> Len(applications)]

\* Insight 4: interview conversion, interview_rate > 0.15.
InterviewInsight(applications) ==
    IF RateAbove(calculate_interview_rate(applications),
                 [num |-> 15, den |-> 100])
    THEN << [title |-> "Strong interview rate", type |-> "success",
             about |-> "interview"] >>
    ELSE <<>>

OnboardingTip ==
    [title |-> "Start applying!", type |-> "tip", about |-> "start"]

\* insights[:5]
Top5(list) == SubSeq(list, 1, IF Len(list) < 5 THEN Len(list) ELSE 5)

\* generate_insights(user_id, applications), today being the clock.
GenerateInsightsNoEarlyReturn(applications, today) ==
    Top5(SourceInsight(applications)
         \o (IF applications = <<>> THEN <<>> ELSE GhostInsight(applications))
         \o MomentumInsight(applications, today)
         \o (IF applications = <<>> THEN <<>>
             ELSE InterviewInsight(applications)))

generate_insights(applications, today) ==
    IF applications = <<>> THEN <<OnboardingTip>>
    ELSE Top5(SourceInsight(applications)
              \o GhostInsight(applications)
              \o MomentumInsight(applications, today)
              \o InterviewInsight(applications))

\* The rules the call evaluates: none before the early return.
RulesEvaluated(applications) ==
    IF applications = <<>> THEN {}
    ELSE {"best_source", "ghost_rate", "momentum", "interview_rate"}

(***************************************************************************)
(* The insight generator on its own: a request on a set of applications.   *)
(***************************************************************************)
InsightDays == {20}
InsightSources == <<"referral", "direct", "linkedin">>

\* n_this applications of the current week, n_last of the week before and
\* n_old older ones, the first g of them ghosted and the next i in interview.
BuildPortfolio(n_this, n_last, n_old, g, i, today) ==
    [k \in 1..(n_this + n_last + n_old) |->
        [status |-> IF k <= g THEN "ghosted"
                    ELSE IF k <= g + i THEN "interview" ELSE "applied",
         source |-> InsightSources[(k % 3) + 1],
         applied_date |->
             IF k <= n_this THEN today - (k % 7)
             ELSE IF k <= n_this + n_last THEN today - 7 - (k % 7)
             ELSE today - 14]]

InitInsights ==
    /\ UiIdle
    /\ now \in InsightDays
    /\ apps = <<>>
    /\ events = EmptyBag
    /\ sweep_runs = 0
    /\ sw = [w \in Workers |-> IdleSession]
    /\ stage = "requested"
    /\ message = NoEmail
    /\ doc_ents = NoEntities
    /\ open_apps = <<>>
    /\ nlp = NoNlpResult
    /\ classification = NoClassification
    /\ match_result = NoMatch
    /\ escalation = NoEscalation
    /\ \E n_this \in 0..MaxPerWeek, n_last \in 0..MaxPerWeek, n_old \in 0..1 :
          \E g \in 0..(n_this + n_last + n_old) :
             \E i \in 0..(n_this + n_last + n_old - g) :
                portfolio = BuildPortfolio(n_this, n_last, n_old, g, i, now)
    /\ insights = <<>>

\* GET insights: generate_insights on the user's applications.
GenerateInsights ==
    /\ stage = "requested"
    /\ insights' = generate_insights(portfolio, now)
    /\ stage' = "answered"
    /\ UNCHANGED <<uiVars, ghostVars, message, doc_ents, open_apps, nlp,
                   classification, match_result, escalation, portfolio>>

NextInsights == GenerateInsights

SpecInsights == InitInsights /\ [][NextInsights]_vars

(***************************************************************************)
(* The web client.  The server side stays idle while it is exercised.      *)
(***************************************************************************)
BackendIdle ==
    /\ now = 0
    /\ apps = <<>>
    /\ events = EmptyBag
    /\ sweep_runs = 0
    /\ sw = [w \in Workers |-> IdleSession]
    /\ stage = "idle"
    /\ message = NoEmail
    /\ doc_ents = NoEntities
    /\ open_apps = <<>>
    /\ nlp = NoNlpResult
    /\ classification = NoClassification
    /\ match_result = NoMatch
    /\ escalation = NoEscalation
    /\ portfolio = <<>>
    /\ insights = <<>>

backendVars == <<ghostVars, mailVars, insightVars>>

(***************************************************************************)
(* useGmail: the pending-leads hook.  A render commits with the options    *)
(* the caller passed; the auto-sync effect runs in the same commit when    *)
(* its dependency (options?.autoSync) changed since the last commit.       *)
(* Mutations settle asynchronously, each through onSuccess or onError.     *)
(***************************************************************************)
OptionValues == {"undefined", "false", "true"}
Truthy(v) == v = "true"
MutationKinds == {"confirm", "reject"}

\* queryClient.invalidateQueries({ queryKey }) marks the cached query stale.
invalidateQueries(g, key) ==
    IF key = "gmail.pending" THEN [g EXCEPT !.pending_cache = "stale"]
    ELSE [g EXCEPT !.applications_cache = "stale"]

confirm_onSuccess(g) ==
    invalidateQueries(
        invalidateQueries([g EXCEPT !.toast = "Application confirmed"],
                          "gmail.pending"),
        "applications")

confirm_onError(g) == [g EXCEPT !.toast = "Failed to confirm application"]

RejectOnSuccessRefreshesAll(g) ==
    invalidateQueries(
        invalidateQueries([g EXCEPT !.toast = "Application dismissed"],
                          "gmail.pending"),
        "applications")

reject_onSuccess(g) ==
    invalidateQueries([g EXCEPT !.toast = "Application dismissed"],
                      "gmail.pending")

reject_onError(g) == [g EXCEPT !.toast = "Failed to dismiss application"]

AutoSyncEffectUnguarded(g, opt) ==
    IF Truthy(opt)
    THEN [g EXCEPT !.silent_syncs = @ + 1,
                   !.sync_inflight = @ + 1]
    ELSE g

\* The effect of lines 27-32, run with the committed option value.
autoSyncEffect(g, opt) ==
    IF Truthy(opt) /\ ~g.hasSynced
    THEN [g EXCEPT !.hasSynced = TRUE,
                   !.silent_syncs = @ + 1,
                   !.sync_inflight = @ + 1]
    ELSE g

NewHook ==
    [alive |-> FALSE, renders |-> 0, deps |-> "none", hasSynced |-> FALSE,
     enabled_once |-> FALSE, silent_syncs |-> 0, sync_inflight |-> 0,
     timers |-> 0,
     inflight |-> [k \in MutationKinds |-> 0], toast |-> "none",
     pending_cache |-> "fresh", applications_cache |-> "fresh"]

InitLeads ==
    /\ BackendIdle
    /\ gmail = NewHook
    /\ kbd = <<>>
    /\ auth = <<>>
    /\ board = <<>>
    /\ form = <<>>

leadsFrame == UNCHANGED <<backendVars, kbd, auth, board, form>>

\* The component using the hook renders (the first render mounts it).
Render(opt) ==
    /\ gmail.renders < MaxRenders
    /\ gmail.renders = 0 \/ gmail.alive
    /\ LET g == [gmail EXCEPT !.alive = TRUE, !.renders = @ + 1,
                              !.deps = opt,
                              !.enabled_once = @ \/ Truthy(opt)]
       IN  gmail' = IF gmail.deps # opt THEN autoSyncEffect(g, opt) ELSE g
    /\ leadsFrame

Unmount ==
    /\ gmail.alive
    /\ gmail' = [gmail EXCEPT !.alive = FALSE]
    /\ leadsFrame

\* gmailApi.sync() of the silent sync resolves: two timers are armed.
SilentSyncSucceeds ==
    /\ gmail.sync_inflight > 0
    /\ gmail' = [gmail EXCEPT !.sync_inflight = @ - 1, !.timers = @ + 2]
    /\ leadsFrame

SilentSyncFails ==
    /\ gmail.sync_inflight > 0
    /\ gmail' = [gmail EXCEPT !.sync_inflight = @ - 1]
    /\ leadsFrame

TimerFires ==
    /\ gmail.timers > 0
    /\ gmail' = invalidateQueries([gmail EXCEPT !.timers = @ - 1],
                                  "gmail.pending")
    /\ leadsFrame

\* confirmApplication(id) / rejectApplication(id): mutate.
Mutate(kind) ==
    /\ gmail.alive
    /\ gmail.inflight[kind] < MaxInFlight
    /\ gmail' = [gmail EXCEPT !.inflight[kind] = @ + 1]
    /\ leadsFrame

ConfirmSucceeds ==
    /\ gmail.inflight["confirm"] > 0
    /\ gmail' = confirm_onSuccess([gmail EXCEPT !.inflight["confirm"] = @ - 1])
    /\ leadsFrame

ConfirmFails ==
    /\ gmail.inflight["confirm"] > 0
    /\ gmail' = confirm_onError([gmail EXCEPT !.inflight["confirm"] = @ - 1])
    /\ leadsFrame

RejectSucceeds ==
    /\ gmail.inflight["reject"] > 0
    /\ gmail' = reject_onSuccess([gmail EXCEPT !.inflight["reject"] = @ - 1])
    /\ leadsFrame

RejectFails ==
    /\ gmail.inflight["reject"] > 0
    /\ gmail' = reject_onError([gmail EXCEPT !.inflight["reject"] = @ - 1])
    /\ leadsFrame

\* react-query refetches a stale query that is in use.
Refetch(key) ==
    /\ IF key = "gmail.pending" THEN gmail.pending_cache = "stale"
       ELSE gmail.applications_cache = "stale"
    /\ gmail' = IF key = "gmail.pending"
                THEN [gmail EXCEPT !.pending_cache = "fresh"]
                ELSE [gmail EXCEPT !.applications_cache = "fresh"]
    /\ leadsFrame

NextLeads ==
    \/ \E opt \in OptionValues : Render(opt)
    \/ Unmount
    \/ SilentSyncSucceeds
    \/ SilentSyncFails
    \/ TimerFires
    \/ \E kind \in MutationKinds : Mutate(kind)
    \/ ConfirmSucceeds
    \/ ConfirmFails
    \/ RejectSucceeds
    \/ RejectFails
    \/ \E key \in {"gmail.pending", "applications"} : Refetch(key)

SpecLeads == InitLeads /\ [][NextLeads]_vars

(***************************************************************************)
(* Keyboard: useListNavigation on the applications page, the command       *)
(* palette, the global Cmd/Ctrl+K shortcut, and the two modals of the UI    *)
(* store.  One keydown event is one step: every attached listener handles  *)
(* it, the document listener (palette) before the window listeners.        *)
(* Indexes are 0-based as in the source.                                   *)
(***************************************************************************)
MathMin(a, b) == IF a < b THEN a ELSE b
MathMax(a, b) == IF a > b THEN a ELSE b

\* xs[i] is not undefined.
Defined(xs, i) == i >= 0 /\ i < Len(xs)

\* The command palette's commands, in order: id and label.
commands ==
    << [id |-> "home",
        label |-> <<"G","o"," ","t","o"," ","D","a","s","h","b","o","a","r","d">>],
       [id |-> "applications",
        label |-> <<"G","o"," ","t","o"," ","A","p","p","l","i","c","a","t","i","o","n","s">>],
       [id |-> "analytics",
        label |-> <<"G","o"," ","t","o"," ","A","n","a","l","y","t","i","c","s">>],
       [id |-> "emails",
        label |-> <<"G","o"," ","t","o"," ","E","m","a","i","l","s">>],
       [id |-> "settings",
        label |-> <<"G","o"," ","t","o"," ","S","e","t","t","i","n","g","s">>],
       [id |-> "new-app",
        label |-> <<"A","d","d"," ","N","e","w"," ","A","p","p","l","i","c","a","t","i","o","n">>] >>

filteredCommands(query) ==
    IF query = <<>> THEN commands
    ELSE SelectSeq(commands, LAMBDA cmd : Contains(Lower(cmd.label), Lower(query)))

\* What the user types into the palette's search box.
Queries == { <<>>, <<"A","P","P">>, <<"z","z">> }

\* The applications listed on the applications page.
ItemLists == { [i \in 1..n |-> i] : n \in 0..MaxItems }

openCommandPalette(s) ==
    IF s.isCommandPaletteOpen THEN s
    ELSE [s EXCEPT !.isCommandPaletteOpen = TRUE, !.query = <<>>,
                   !.paletteIndex = 0]

closeCommandPalette(s) == [s EXCEPT !.isCommandPaletteOpen = FALSE]

openAddModal(s) == [s EXCEPT !.isAddModalOpen = TRUE]

closeAddModal(s) == [s EXCEPT !.isAddModalOpen = FALSE]

\* cmd.action() followed by onClose().
runCommand(s, cmd) ==
    closeCommandPalette(
        IF cmd.id = "new-app" THEN openAddModal([s EXCEPT !.ran = cmd.id])
        ELSE [s EXCEPT !.ran = cmd.id])

\* useListNavigation's handleKeyDown.
listKeyDown(s, key, target) ==
    IF target \in {"INPUT", "TEXTAREA"} THEN s
    ELSE CASE key = "j" ->
                [s EXCEPT !.selectedIndex = MathMin(@ + 1, Len(s.items) - 1)]
           [] key = "k" ->
                [s EXCEPT !.selectedIndex = MathMax(@ - 1, 0)]
           [] key = "Enter" ->
                IF Defined(s.items, s.selectedIndex)
                THEN [s EXCEPT !.selected = s.items[s.selectedIndex + 1]]
                ELSE s
           [] OTHER -> s

\* CommandPalette's handleKeyDown, attached while the palette is open.
paletteKeyDown(s, key) ==
    IF ~s.isCommandPaletteOpen THEN s
    ELSE LET shown == filteredCommands(s.query)
         IN  CASE key = "ArrowDown" ->
                    [s EXCEPT !.paletteIndex = MathMin(@ + 1, Len(shown) - 1)]
               [] key = "ArrowUp" ->
                    [s EXCEPT !.paletteIndex = MathMax(@ - 1, 0)]
               [] key = "Enter" ->
                    IF Defined(shown, s.paletteIndex)
                    THEN runCommand(s, shown[s.paletteIndex + 1])
                    ELSE s
               [] key = "Escape" -> closeCommandPalette(s)
               [] OTHER -> s

\* GlobalComponents' handleKeyDown.
globalKeyDown(s, key, ctrl) ==
    IF ctrl /\ key = "k" THEN openCommandPalette(s) ELSE s

Keys == {"j", "k", "Enter", "ArrowDown", "ArrowUp", "Escape"}
Targets == {"BODY", "INPUT"}

NewKeyboard ==
    [items |-> <<>>, selectedIndex |-> 0, selected |-> 0,
     isCommandPaletteOpen |-> FALSE, isAddModalOpen |-> FALSE,
     query |-> <<>>, paletteIndex |-> 0, ran |-> "none", key |-> "none"]

InitKeys ==
    /\ BackendIdle
    /\ gmail = <<>>
    /\ kbd = NewKeyboard
    /\ auth = <<>>
    /\ board = <<>>
    /\ form = <<>>

keysFrame == UNCHANGED <<backendVars, gmail, auth, board, form>>

\* A keydown event reaches the page.
KeyDown(key, ctrl, target) ==
    /\ LET s0 == [kbd EXCEPT !.key = key]
           s1 == paletteKeyDown(s0, key)
           s2 == [listKeyDown(s0, key, target) EXCEPT
                     !.isCommandPaletteOpen = s1.isCommandPaletteOpen,
                     !.isAddModalOpen = s1.isAddModalOpen,
                     !.paletteIndex = s1.paletteIndex,
                     !.ran = s1.ran]
       IN  kbd' = globalKeyDown(s2, key, ctrl)
    /\ keysFrame

\* The applications query returns another list; the effect on items.length
\* resets the selection.
ItemsChange(items) ==
    /\ items # kbd.items
    /\ kbd' = [kbd EXCEPT !.items = items,
                          !.selectedIndex =
                              IF Len(items) # Len(kbd.items) THEN 0 ELSE @,
                          !.key = "none"]
    /\ keysFrame

\* The user types in the palette's search box; the effect on query resets
\* the selection.
TypeQuery(query) ==
    /\ kbd.isCommandPaletteOpen
    /\ query # kbd.query
    /\ kbd' = [kbd EXCEPT !.query = query, !.paletteIndex = 0, !.key = "none"]
    /\ keysFrame

\* The pointer enters a listed command.
HoverCommand(i) ==
    /\ kbd.isCommandPaletteOpen
    /\ Defined(filteredCommands(kbd.query), i)
    /\ kbd' = [kbd EXCEPT !.paletteIndex = i, !.key = "none"]
    /\ keysFrame

\* A click on the palette's backdrop.
ClickPaletteBackdrop ==
    /\ kbd.isCommandPaletteOpen
    /\ kbd' = [closeCommandPalette(kbd) EXCEPT !.key = "none"]
    /\ keysFrame

\* The add button of a page.
ClickAdd ==
    /\ ~kbd.isAddModalOpen
    /\ kbd' = [openAddModal(kbd) EXCEPT !.key = "none"]
    /\ keysFrame

\* The modal's close button, cancel button or backdrop.
ClickCloseAddModal ==
    /\ kbd.isAddModalOpen
    /\ kbd' = [closeAddModal(kbd) EXCEPT !.key = "none"]
    /\ keysFrame

NextKeys ==
    \/ \E key \in Keys, ctrl \in BOOLEAN, target \in Targets :
          KeyDown(key, ctrl, target)
    \/ \E items \in ItemLists : ItemsChange(items)
    \/ \E query \in Queries : TypeQuery(query)
    \/ \E i \in 0..(Len(commands) - 1) : HoverCommand(i)
    \/ ClickPaletteBackdrop
    \/ ClickAdd
    \/ ClickCloseAddModal

SpecKeys == InitKeys /\ [][NextKeys]_vars

(***************************************************************************)
(* Authentication: the persisted auth store, the API client's token, the   *)
(* AuthGuard of the root layout, the login page, the OAuth callback page   *)
(* and the sidebar's logout.  A path is its sequence of segments ('/' is   *)
(* the empty sequence); router.push takes effect in a later step.  An      *)
(* effect runs when its dependencies differ from those of its last run.    *)
(***************************************************************************)
Null == "null"
Home == <<>>
LoginPath == <<"login">>
CallbackPath == <<"auth", "callback">>
Routes == {Home, <<"applications">>, LoginPath, CallbackPath}

\* Routes that don't require authentication.
publicRoutes == {LoginPath, CallbackPath}

IsPrefix(r, p) == Len(r) <= Len(p) /\ SubSeq(p, 1, Len(r)) = r

\* pathname === route || pathname.startsWith(route + '/')
isPublicRoute(pathname) == \E route \in publicRoutes : IsPrefix(route, pathname)

Tokens == {"t1", "t2"}
User == "u1"
LoggedOut == [user |-> Null, accessToken |-> Null, isAuthenticated |-> FALSE]
Sessions ==
    {LoggedOut} \cup
    { [user |-> User, accessToken |-> t, isAuthenticated |-> TRUE] : t \in Tokens }

NoPush == [path |-> <<"-">>, search |-> "-"]
Url(path, search) == [path |-> path, search |-> search]

\* The URLs a page load can start from.
EntryUrls ==
    { Url(p, "") : p \in Routes } \cup
    { Url(CallbackPath, t) : t \in Tokens }

\* api.setAccessToken(token): the API client keeps the token it was given.
setAccessToken(s, token) == [s EXCEPT !.api_token = token]

\* zustand set(...) under persist: the store and its stored copy change together.
Set(s, session) ==
    [s EXCEPT !.user = session.user, !.accessToken = session.accessToken,
              !.isAuthenticated = session.isAuthenticated,
              !.persisted = session]

setAuth(s, user, token) ==
    Set(setAccessToken(s, token),
        [user |-> user, accessToken |-> token, isAuthenticated |-> TRUE])

logout(s) == Set(setAccessToken(s, Null), LoggedOut)

InitializeKeepsClientToken(s) == s

initialize(s) ==
    IF s.accessToken # Null THEN setAccessToken(s, s.accessToken) ELSE s

push(s, path, search) == [s EXCEPT !.pending_push = Url(path, search)]

\* What AuthGuard returns from its render.
AuthGuardRender(s) ==
    IF (~s.mounted \/ s.isChecking) /\ ~isPublicRoute(s.pathname)
    THEN "null" ELSE "children"

GuardDeps(s) == <<s.mounted, s.isAuthenticated, s.pathname>>
LoginDeps(s) == <<s.isAuthenticated, s.login_mounted>>

\* A document load: a new JavaScript context, the store rehydrated from
\* localStorage, every component state at its initial value.
Loaded(session, url, budget) ==
    [user |-> session.user, accessToken |-> session.accessToken,
     isAuthenticated |-> session.isAuthenticated, persisted |-> session,
     api_token |-> Null,
     pathname |-> url.path, search |-> url.search, pending_push |-> NoPush,
     mounted |-> FALSE, isChecking |-> TRUE, guard_deps |-> <<>>,
     login_mounted |-> FALSE, login_deps |-> <<>>,
     callback |-> "mounted", me |-> [token |-> Null, status |-> "none"],
     logout_inflight |-> FALSE, budget |-> budget]

InitAuth ==
    /\ BackendIdle
    /\ gmail = <<>>
    /\ kbd = <<>>
    /\ \E session \in Sessions, url \in EntryUrls :
          auth = Loaded(session, url, MaxUserActions)
    /\ board = <<>>
    /\ form = <<>>

authFrame == UNCHANGED <<backendVars, gmail, kbd, board, form>>

\* An effect of the committed render has not run yet.  React flushes the
\* effects of a commit before it handles the next event or update.
EffectPending ==
    \/ ~auth.mounted
    \/ auth.guard_deps # GuardDeps(auth)
    \/ auth.pathname = LoginPath
          /\ (~auth.login_mounted \/ auth.login_deps # LoginDeps(auth))
    \/ auth.pathname = CallbackPath /\ auth.callback = "mounted"

\* AuthGuard's first effect: setMounted(true); initialize().
GuardMount ==
    /\ ~auth.mounted
    /\ auth' = initialize([auth EXCEPT !.mounted = TRUE])
    /\ authFrame

\* The body of AuthGuard's second effect, once mounted.
guardEffect(s) ==
    IF ~s.isAuthenticated /\ ~isPublicRoute(s.pathname)
    THEN push(s, LoginPath, "")
    ELSE [s EXCEPT !.isChecking = FALSE]

\* AuthGuard's second effect.
GuardCheck ==
    /\ auth.mounted
    /\ auth.guard_deps # GuardDeps(auth)
    /\ auth' = guardEffect([auth EXCEPT !.guard_deps = GuardDeps(auth)])
    /\ authFrame

\* LoginContent's first effect.
LoginMount ==
    /\ auth.pathname = LoginPath
    /\ ~auth.login_mounted
    /\ auth' = [auth EXCEPT !.login_mounted = TRUE]
    /\ authFrame

LoginEffectIgnoresAuth(s) ==
    IF s.login_mounted THEN push(s, Home, "") ELSE s

\* The body of LoginContent's second effect.
loginEffect(s) ==
    IF s.login_mounted /\ s.isAuthenticated THEN push(s, Home, "") ELSE s

\* LoginContent's second effect.
LoginCheck ==
    /\ auth.pathname = LoginPath
    /\ auth.login_deps # LoginDeps(auth)
    /\ auth' = loginEffect([auth EXCEPT !.login_deps = LoginDeps(auth)])
    /\ authFrame

\* CallbackContent's effect up to the fetch.
CallbackEffect ==
    /\ auth.pathname = CallbackPath
    /\ auth.callback = "mounted"
    /\ auth' = IF auth.search \notin Tokens
               THEN push([auth EXCEPT !.callback = "done"],
                         LoginPath, "error=no_token")
               ELSE [auth EXCEPT !.callback = "fetching",
                                 !.me = [token |-> auth.search,
                                         status |-> "pending"]]
    /\ authFrame

FetchUserSettlesTrusting(s, status) ==
    LET r == [s EXCEPT !.callback = "done", !.me.status = status]
    IN  push(setAuth(r, User, r.me.token), Home, "")

\* fetchUser after the await: the response is OK, not OK, the request
\* threw, or the body of an OK response is not JSON.
fetchUserSettles(s, status) ==
    LET r == [s EXCEPT !.callback = "done", !.me.status = status]
    IN  IF status = "ok"
        THEN push(setAuth(r, User, r.me.token), Home, "")
        ELSE push(r, LoginPath, "error=auth_failed")

FetchStatuses == {"ok", "not_ok", "threw", "ok_not_json"}

CallbackFetchSettles(status) ==
    /\ auth.callback = "fetching"
    /\ ~EffectPending
    /\ auth' = fetchUserSettles(auth, status)
    /\ authFrame

\* The router completes a push: the page of the new path mounts.
Navigate ==
    /\ auth.pending_push # NoPush
    /\ ~EffectPending
    /\ auth' = [auth EXCEPT !.pathname = auth.pending_push.path,
                            !.search = auth.pending_push.search,
                            !.pending_push = NoPush,
                            !.login_mounted =
                                IF auth.pending_push.path = auth.pathname
                                THEN @ ELSE FALSE,
                            !.login_deps =
                                IF auth.pending_push.path = auth.pathname
                                THEN @ ELSE <<>>]
    /\ authFrame

\* The user follows a link of the sidebar or runs a palette command.
UserNavigate(path) ==
    /\ auth.budget > 0
    /\ ~EffectPending
    /\ path # auth.pathname
    /\ path \in {Home, <<"applications">>}
    /\ auth' = [auth EXCEPT !.budget = @ - 1,
                            !.pathname = path, !.search = "",
                            !.pending_push = NoPush,
                            !.login_mounted = FALSE, !.login_deps = <<>>]
    /\ authFrame

\* The user loads a URL (reload, typed address, return from the OAuth
\* provider).
PageLoad(url) ==
    /\ auth.budget > 0
    /\ auth' = Loaded(auth.persisted, url, auth.budget - 1)
    /\ authFrame

\* Sidebar.handleLogout up to the await; the sidebar is part of the guarded
\* children and hides itself on the public routes.
ClickLogout ==
    /\ auth.budget > 0
    /\ ~EffectPending
    /\ AuthGuardRender(auth) = "children"
    /\ auth.pathname \notin publicRoutes
    /\ auth.isAuthenticated
    /\ ~auth.logout_inflight
    /\ auth' = [auth EXCEPT !.budget = @ - 1, !.logout_inflight = TRUE]
    /\ authFrame

\* Sidebar.handleLogout after the await: logout(); router.push('/login').
LogoutSettles ==
    /\ auth.logout_inflight
    /\ ~EffectPending
    /\ auth' = push(logout([auth EXCEPT !.logout_inflight = FALSE]),
                    LoginPath, "")
    /\ authFrame

NextAuth ==
    \/ GuardMount
    \/ GuardCheck
    \/ LoginMount
    \/ LoginCheck
    \/ CallbackEffect
    \/ \E status \in FetchStatuses : CallbackFetchSettles(status)
    \/ Navigate
    \/ \E path \in Routes : UserNavigate(path)
    \/ \E url \in EntryUrls : PageLoad(url)
    \/ ClickLogout
    \/ LogoutSettles

SpecAuth == InitAuth /\ [][NextAuth]_vars

\* React runs a pending effect and the router completes a pending push;
\* nothing is assumed of the user or of the network.
SpecAuthFair ==
    /\ InitAuth
    /\ [][NextAuth]_vars
    /\ WF_vars(GuardMount)
    /\ WF_vars(GuardCheck)
    /\ WF_vars(LoginMount)
    /\ WF_vars(LoginCheck)
    /\ WF_vars(CallbackEffect)
    /\ WF_vars(Navigate)

(***************************************************************************)
(* The kanban board.  Cards are drawn for the applications whose status is *)
(* one of the five columns; the columns and the drawn cards are the drop   *)
(* targets.  The applications query can return new data at any time, also  *)
(* during a drag.                                                          *)
(***************************************************************************)
columns == <<"applied", "screening", "oa", "interview", "offer">>
collapsedStatuses == <<"accepted", "rejected", "withdrawn", "ghosted">>
ColumnStatuses == {columns[i] : i \in 1..Len(columns)}
CollapsedSet == {collapsedStatuses[i] : i \in 1..Len(collapsedStatuses)}

CardIds == {"id1", "id2"}
Gone == "gone"

\* The statuses the server is seen to return for a card in this model.
ServedStatuses == {"applied", "interview", "ghosted"}
Boards == [CardIds -> ServedStatuses \cup {Gone}]

NoOver == "none"

\* applications.find((app) => app.id === id)
FindApp(b, id) == id \in CardIds /\ b.applications[id] # Gone

\* The cards the board draws: getByStatus(column.status) for each column.
Drawn(b) == {id \in CardIds : b.applications[id] \in ColumnStatuses}

\* What dnd-kit can report as over: nothing, a column, a drawn card.
DropTargets(b) == {NoOver} \cup ColumnStatuses \cup Drawn(b)

handleDragStart(b, active) == [b EXCEPT !.activeId = active]

handleDragOver(b, over) ==
    IF over = NoOver THEN [b EXCEPT !.overColumn = Null]
    ELSE IF over \in ColumnStatuses \/ over \in CollapsedSet
         THEN [b EXCEPT !.overColumn = over]
         ELSE IF FindApp(b, over)
              THEN [b EXCEPT !.overColumn = b.applications[over]]
              ELSE b

updateStatus(b, id, status) ==
    [b EXCEPT !.requests = @ + 1,
              !.last_request = [id |-> id, status |-> status]]

HandleDragEndAlwaysUpdates(b, active, over) ==
    LET c == [b EXCEPT !.activeId = Null, !.overColumn = Null, !.drop = over]
        targetStatus ==
            IF over \in ColumnStatuses THEN over
            ELSE IF FindApp(c, over) THEN c.applications[over] ELSE Null
    IN  IF over = NoOver THEN c
        ELSE IF ~FindApp(c, active) THEN c
        ELSE IF targetStatus # Null
             THEN updateStatus(c, active, targetStatus)
             ELSE c

handleDragEnd(b, active, over) ==
    LET c == [b EXCEPT !.activeId = Null, !.overColumn = Null, !.drop = over]
        targetStatus ==
            IF over \in ColumnStatuses THEN over
            ELSE IF FindApp(c, over) THEN c.applications[over] ELSE Null
    IN  IF over = NoOver THEN c
        ELSE IF ~FindApp(c, active) THEN c
        ELSE IF targetStatus # Null /\ targetStatus # c.applications[active]
             THEN updateStatus(c, active, targetStatus)
             ELSE c

NoRequest == [id |-> Null, status |-> Null]

InitKanban ==
    /\ BackendIdle
    /\ gmail = <<>>
    /\ kbd = <<>>
    /\ auth = <<>>
    /\ \E applications \in Boards :
          board = [applications |-> applications, activeId |-> Null,
                   overColumn |-> Null, drop |-> NoOver, drags |-> 0,
                   requests |-> 0, last_request |-> NoRequest]
    /\ form = <<>>

kanbanFrame == UNCHANGED <<backendVars, gmail, kbd, auth, form>>

\* The pointer picks up a drawn card.
DragStart(id) ==
    /\ board.activeId = Null
    /\ board.drags < MaxDrags
    /\ id \in Drawn(board)
    /\ board' = handleDragStart([board EXCEPT !.drags = @ + 1], id)
    /\ kanbanFrame

DragOver(over) ==
    /\ board.activeId # Null
    /\ over \in DropTargets(board)
    /\ board' = handleDragOver(board, over)
    /\ kanbanFrame

\* The card is dropped.
DragEnd(over) ==
    /\ board.activeId # Null
    /\ over \in DropTargets(board)
    /\ board' = handleDragEnd(board, board.activeId, over)
    /\ kanbanFrame

\* useApplications returns other data (a refetch after a mutation, the
\* ghost sweep or the mail pipeline having changed a status, a deletion).
ApplicationsChange(id, status) ==
    /\ status # board.applications[id]
    /\ board' = [board EXCEPT !.applications[id] = status]
    /\ kanbanFrame

NextKanban ==
    \/ \E id \in CardIds : DragStart(id)
    \/ \E over \in {NoOver} \cup ColumnStatuses \cup CardIds : DragOver(over)
    \/ \E over \in {NoOver} \cup ColumnStatuses \cup CardIds : DragEnd(over)
    \/ \E id \in CardIds, status \in ServedStatuses \cup {Gone} :
          ApplicationsChange(id, status)

SpecKanban == InitKanban /\ [][NextKanban]_vars

(***************************************************************************)
(* The add-application form.  Field values are text as typed; the salary   *)
(* inputs are number inputs and hold digits or nothing.                    *)
(***************************************************************************)
\* String.prototype.trim
trim(s) ==
    LET keep == {i \in 1..Len(s) : ~IsSpace(s[i])}
    IN  IF keep = {} THEN <<>>
        ELSE SubSeq(s, CHOOSE i \in keep : \A j \in keep : i <= j,
                       CHOOSE i \in keep : \A j \in keep : i >= j)

\* String.prototype.startsWith
startsWith(s, prefix) == IsPrefix(prefix, s)

Digits == <<"0", "1", "2", "3", "4", "5", "6", "7", "8", "9">>
DigitValue(c) == (CHOOSE i \in 1..Len(Digits) : Digits[i] = c) - 1

RECURSIVE NumberOf(_)
\* Number(text) of a number input's value.
NumberOf(s) ==
    IF s = <<>> THEN 0
    ELSE 10 * NumberOf(SubSeq(s, 1, Len(s) - 1)) + DigitValue(s[Len(s)])

ErrorKeys == {"company", "role", "url", "salaryMax", "submit"}
NoErrors == [k \in ErrorKeys |-> ""]

\* validate(): the errors it records; it returns true when there are none.
validate(data) ==
    [k \in ErrorKeys |->
        CASE k = "company" ->
                IF trim(data.company) = <<>> THEN "Company name is required" ELSE ""
          [] k = "role" ->
                IF trim(data.role) = <<>> THEN "Role is required" ELSE ""
          [] k = "url" ->
                IF data.url # <<>> /\ ~startsWith(data.url, <<"h","t","t","p">>)
                THEN "URL must start with http:// or https://" ELSE ""
          [] k = "salaryMax" ->
                IF data.salaryMin # <<>> /\ data.salaryMax # <<>>
                   /\ NumberOf(data.salaryMax) < NumberOf(data.salaryMin)
                THEN "Max salary must be greater than min" ELSE ""
          [] OTHER -> ""]

EmptyForm ==
    [company |-> <<>>, role |-> <<>>, url |-> <<>>,
     salaryMin |-> <<>>, salaryMax |-> <<>>]

\* What the user types into the fields.
FieldValues ==
    [company |-> { <<>>, <<" ">>, <<" ","A","c","m","e"," ">> },
     role |-> { <<>>, <<"S","W","E">> },
     url |-> { <<>>,
               <<"h","t","t","p","s",":","/","/","a",".","c","o">>,
               <<"h","t","t","p","x",".","a",".","c","o">>,
               <<"a",".","c","o">> },
     salaryMin |-> { <<>>, <<"5","0">> },
     salaryMax |-> { <<>>, <<"4","0">>, <<"5","0">>, <<"6","0">> }]

FieldNames == {"company", "role", "url", "salaryMin", "salaryMax"}

NoCreate == [company |-> <<"-">>, role |-> <<"-">>, url |-> <<"-">>,
             salaryMin |-> -1, salaryMax |-> -1]

InitForm ==
    /\ BackendIdle
    /\ gmail = <<>>
    /\ kbd = <<>>
    /\ auth = <<>>
    /\ board = <<>>
    /\ form = [formData |-> EmptyForm, errors |-> NoErrors,
               isSubmitting |-> FALSE, isAddModalOpen |-> TRUE,
               submits |-> 0, creates |-> 0, last_create |-> NoCreate]

formFrame == UNCHANGED <<backendVars, gmail, kbd, auth, board>>

\* handleChange: the field takes the value, its error is cleared.
Change(name, value) ==
    /\ form.isAddModalOpen
    /\ ~form.isSubmitting
    /\ value # form.formData[name]
    /\ form' = [form EXCEPT !.formData[name] = value,
                            !.errors = IF name \in ErrorKeys
                                       THEN [@ EXCEPT ![name] = ""] ELSE @]
    /\ formFrame

\* handleSubmit up to the await of createApplication.mutateAsync.
Submit ==
    /\ form.isAddModalOpen
    /\ ~form.isSubmitting
    /\ form.submits < MaxSubmits
    /\ LET data == form.formData
           newErrors == validate(data)
           f == [form EXCEPT !.submits = @ + 1, !.errors = newErrors]
       IN  form' =
             IF newErrors # NoErrors THEN f
             ELSE [f EXCEPT
                     !.isSubmitting = TRUE,
                     !.creates = @ + 1,
                     !.last_create =
                        [company |-> trim(data.company),
                         role |-> trim(data.role),
                         url |-> data.url,
                         salaryMin |-> IF data.salaryMin # <<>>
                                       THEN NumberOf(data.salaryMin) ELSE -1,
                         salaryMax |-> IF data.salaryMax # <<>>
                                       THEN NumberOf(data.salaryMax) ELSE -1]]
    /\ formFrame

\* The request succeeded: the form is reset and the modal closed.
CreateSucceeds ==
    /\ form.isSubmitting
    /\ form' = [form EXCEPT !.formData = EmptyForm, !.isAddModalOpen = FALSE,
                            !.isSubmitting = FALSE]
    /\ formFrame

\* The request failed.
CreateFails ==
    /\ form.isSubmitting
    /\ form' = [form EXCEPT
                  !.errors = [NoErrors EXCEPT !["submit"] =
                                "Failed to create application. Please try again."],
                  !.isSubmitting = FALSE]
    /\ formFrame

\* The add button opens the modal again; its state was kept.
Reopen ==
    /\ ~form.isAddModalOpen
    /\ form' = [form EXCEPT !.isAddModalOpen = TRUE]
    /\ formFrame

NextForm ==
    \/ \E name \in FieldNames : \E value \in FieldValues[name] : Change(name, value)
    \/ Submit
    \/ CreateSucceeds
    \/ CreateFails
    \/ Reopen

SpecForm == InitForm /\ [][NextForm]_vars

(***************************************************************************)
(* Properties of the ghost detector                                        *)
(***************************************************************************)
\* The step is one completed sweep.
SweepStep == sweep_runs' = sweep_runs + 1

\* A message was linked to the application after its status last changed.
LinkedSince(row) == \E t \in row.linked_at : t > row.status_updated_at

InWindow(row, t) == ~(row.status_updated_at < t - 14)

\* Rows of a bag of events that belong to application a and have the type.
EventCount(bag, a, type) ==
    SumOver([e \in BagToSet(bag) |->
                IF e.application_id = a /\ e.event_type = type
                THEN CopiesIn(e, bag) ELSE 0],
            BagToSet(bag))

\* C1 as stated: in one sweep at time now, every application in applied or
\* screening whose status-changed timestamp is older than now - 14 days and
\* which has no message linked since ends ghosted with the sweep time as its
\* timestamp; every application with another status or with a timestamp
\* inside the window is unchanged.
C1_Original ==
    [][SweepStep =>
        \A a \in DOMAIN apps :
            /\ ( /\ apps[a].status \in {"applied", "screening"}
                 /\ ~InWindow(apps[a], now)
                 /\ ~LinkedSince(apps[a]) )
               => ( /\ apps'[a].status = "ghosted"
                    /\ apps'[a].status_updated_at = now )
            /\ ( \/ apps[a].status \notin {"applied", "screening"}
                 \/ InWindow(apps[a], now) )
               => apps'[a] = apps[a]]_vars

\* C1 (amended): the same for every application that is not soft-deleted; a
\* soft-deleted application is left unchanged by the sweep.
C1_SweepGhostsStale ==
    [][SweepStep =>
        \A a \in DOMAIN apps :
            /\ ( /\ apps[a].deleted_at = NoTime
                 /\ apps[a].status \in {"applied", "screening"}
                 /\ ~InWindow(apps[a], now)
                 /\ ~LinkedSince(apps[a]) )
               => ( /\ apps'[a].status = "ghosted"
                    /\ apps'[a].status_updated_at = now )
            /\ ( \/ apps[a].deleted_at # NoTime
                 \/ apps[a].status \notin {"applied", "screening"}
                 \/ InWindow(apps[a], now) )
               => apps'[a] = apps[a]]_vars

\* A sweep has just ghosted one application and left a fresh one alone.
C1_Witness ==
    /\ sweep_runs >= 1
    /\ \E a, b \in DOMAIN apps :
        /\ apps[a].status = "ghosted"
        /\ apps[a].status_updated_at = now
        /\ EventCount(events, a, "auto_ghosted") >= 1
        /\ apps[b].status = "applied"
        /\ apps[b].deleted_at = NoTime
        /\ apps[b].status_updated_at = now - 14

\* C2: an application in applied or screening that has had a message linked
\* after its status-changed timestamp is never ghosted by a sweep.
C2_LinkedNeverGhosted ==
    [][SweepStep =>
        \A a \in DOMAIN apps :
            ( /\ apps[a].status \in {"applied", "screening"}
              /\ LinkedSince(apps[a]) )
            => apps'[a].status # "ghosted"]_vars

\* C3: every transition made by the sweep emits exactly one audit event for
\* that application, and the event records the status held immediately before
\* the transition, together with the reason.
C3_AuditEventRecordsPriorStatus ==
    [][SweepStep =>
        \A a \in DOMAIN apps :
            (apps[a].status # "ghosted" /\ apps'[a].status = "ghosted") =>
                /\ EventCount(events', a, "auto_ghosted")
                       = EventCount(events, a, "auto_ghosted") + 1
                /\ \A e \in BagToSet(events' (-) events) :
                       e.application_id = a =>
                           /\ e.data.previous_status = apps[a].status
                           /\ e.data.reason # ""]_vars

\* C4: a second sweep run immediately after a first changes no application
\* and emits no event.
C4_SweepIdempotent ==
    [][(sweep_runs >= 1 /\ SweepStep) =>
           (apps' = apps /\ events' = events)]_vars

\* Two sweeps in a row have run, the first of which ghosted an application.
C4_Witness ==
    /\ sweep_runs = 2
    /\ \E a \in DOMAIN apps :
        /\ apps[a].status = "ghosted"
        /\ apps[a].status_updated_at = now
        /\ EventCount(events, a, "auto_ghosted") = 1

UnghostCount(bag, a) ==
    SumOver([e \in BagToSet(bag) |->
                IF /\ e.application_id = a
                   /\ e.event_type = "status_change"
                   /\ e.data.from = "ghosted"
                THEN CopiesIn(e, bag) ELSE 0],
            BagToSet(bag))

\* C6: two sweeps for the same user never run concurrently: no interleaving
\* lets two invocations both read the same stale application and both
\* transition it or both emit an audit event for it.  An application is
\* audited as ghosted at most once more than it was taken out of ghosted.
C6_NoConcurrentSweeps ==
    \A a \in DOMAIN apps :
        EventCount(events, a, "auto_ghosted") <= 1 + UnghostCount(events, a)

(***************************************************************************)
(* Properties of the e-mail pipeline                                       *)
(***************************************************************************)
Classified == stage \in {"classified", "escalated", "matched"}

\* The text the classifier searches.
MessageText ==
    Lower(Joined(FStr(message.subject), FStr(message.body_preview)))

\* The categories in the order the claim gives.
CategoryOrder ==
    <<"application_received", "application_rejected", "interview_invite",
      "assessment_invite", "offer_letter">>

\* The positions of the categories that have a pattern matching the text.
MatchingCategoriesOf(text) ==
    {k \in 1..Len(PATTERNS) :
        \E j \in 1..Len(PATTERNS[k].patterns) :
            RegexSearch(PATTERNS[k].patterns[j], text)}
MatchingCategories == MatchingCategoriesOf(MessageText)

\* C7: the classifier returns the first category, in the fixed order, that
\* has a matching pattern, with the confidence (0.9 or 0.8) of the first
\* matching pattern of that category; nothing later influences the result,
\* which is a function of the text alone.
C7_FirstCategoryFirstPatternWins ==
    /\ \A k \in 1..Len(PATTERNS) : PATTERNS[k].category = CategoryOrder[k]
    /\ Classified =>
        LET text == MessageText
            cats == MatchingCategoriesOf(text)
            k == CHOOSE x \in cats : \A y \in cats : x <= y
            hits == {j \in 1..Len(PATTERNS[k].patterns) :
                        RegexSearch(PATTERNS[k].patterns[j], text)}
            j == CHOOSE x \in hits : \A y \in hits : x <= y
        IN  cats # {} =>
               /\ classification.category = CategoryOrder[k]
               /\ classification.confidence =
                      (IF Len(PATTERNS[k].patterns[j]) > 20 THEN 90 ELSE 80)

\* A message matched by two categories, and by a weak pattern before a strong
\* one of the winning category, has been classified.
C7_Witness ==
    /\ Classified
    /\ Cardinality(MatchingCategories) >= 2
    /\ classification.category = "application_received"
    /\ classification.confidence = 80
    /\ \E j \in 1..Len(PATTERNS[1].patterns) :
          /\ RegexSearch(PATTERNS[1].patterns[j], MessageText)
          /\ Len(PATTERNS[1].patterns[j]) > 20

\* C8: with no pattern matching, the classifier returns general_hr at 0.6
\* when is_likely_job_related and not_job_related at 0.8 otherwise, and
\* is_likely_job_related is true exactly when the keyword count is at least
\* 2 or the sender is a recruiter.
C8_FallbackOnKeywordHeuristic ==
    /\ stage \in {"analyzed", "classified", "escalated", "matched"} =>
          nlp.is_likely_job_related =
              (nlp.keyword_count >= 2 \/ nlp.sender_signals.is_recruiter)
    /\ (Classified /\ MatchingCategories = {}) =>
          classification =
              IF nlp.is_likely_job_related
              THEN [category |-> "general_hr", confidence |-> 60]
              ELSE [category |-> "not_job_related", confidence |-> 80]

\* A message with exactly two keywords, no recruiter sender and no matching
\* pattern has been classified as general_hr.
C8_Witness ==
    /\ Classified
    /\ MatchingCategories = {}
    /\ nlp.keyword_count = 2
    /\ ~nlp.sender_signals.is_recruiter
    /\ classification = [category |-> "general_hr", confidence |-> 60]

\* The message and the application of the end-to-end scenario.
C9Message ==
    [subject |-> <<"I","n","t","e","r","v","i","e","w"," ","R","e","q","u","e","s","t"," ","-"," ","S","W","E"," ","I","n","t","e","r","n">>,
     from_address |-> <<"r","e","c","r","u","i","t","i","n","g","@","a","c","m","e",".","c","o","m">>,
     body_preview |-> <<"W","e","'","d"," ","l","i","k","e"," ","t","o"," ","s","c","h","e","d","u","l","e"," ","a"," ","c","a","l","l",".",".",".">>]
C9Applications ==
    << [id |-> 1, company_name |-> <<"A","c","m","e">>, status |-> "applied"] >>
C9Scenario ==
    /\ message.subject = C9Message.subject
    /\ message.from_address = C9Message.from_address
    /\ message.body_preview = C9Message.body_preview
    /\ open_apps = C9Applications

\* C9 as stated: the scenario's message passes the quick filter, is
\* classified interview_invite at 0.9, is matched to the application at
\* 0.95, and the application's status stays applied.
C9_Original ==
    C9Scenario =>
        /\ stage # "dropped"
        /\ Classified =>
              classification = [category |-> "interview_invite",
                                confidence |-> 90]
        /\ stage = "matched" =>
              match_result = [id |-> 1,
                              confidence |-> [num |-> 95, den |-> 100]]
        /\ open_apps[1].status = "applied"

\* C9 (amended): the same with confidence 0.8 for the classification: the
\* first matching pattern is 'interview', which is not longer than 20.
C9_EndToEndScenario ==
    C9Scenario =>
        /\ stage # "dropped"
        /\ Classified =>
              classification = [category |-> "interview_invite",
                                confidence |-> 80]
        /\ stage = "matched" =>
              match_result = [id |-> 1,
                              confidence |-> [num |-> 95, den |-> 100]]
        /\ open_apps[1].status = "applied"

\* The scenario has run through the whole pipeline.
C9_Witness ==
    /\ C9Scenario
    /\ stage = "matched"
    /\ match_result.id = 1

\* C10: every result whose category is neither not_job_related nor unknown
\* carries a non-empty entity field or has confidence below 0.5.
C10_JobRelatedHasEvidenceOrLowConfidence ==
    (Classified /\ classification.category \notin {"not_job_related", "unknown"})
        => \/ nlp.entities.organizations # <<>>
           \/ nlp.entities.persons # <<>>
           \/ nlp.entities.dates # <<>>
           \/ classification.confidence < 50

\* The Signal Extractor has returned its result for the message.
Analyzed == stage \in {"analyzed", "classified", "escalated", "matched"}

\* C11: for every message text the keyword density is a value in [0,1] and
\* its denominator is never zero.
C11_KeywordDensityInUnitInterval ==
    Analyzed =>
        /\ nlp.keyword_density.den > 0
        /\ nlp.keyword_density.num >= 0
        /\ nlp.keyword_density.num <= nlp.keyword_density.den

\* The sender address holds a blocklist fragment, or the subject holds a
\* promotional phrase.
BlockedSender ==
    /\ ~Absent(message.from_address)
    /\ \E d \in BLOCKED_DOMAINS : \E i \in 1..Len(message.from_address) :
          OccursAt(d, Lower(message.from_address), i)
PromoSubject ==
    /\ ~Absent(message.subject)
    /\ \E p \in promo_patterns : \E i \in 1..Len(message.subject) :
          OccursAt(p, Lower(message.subject), i)

\* C12: for a message whose sender address contains a blocklist fragment or
\* whose subject contains a promotional phrase, the quick filter returns
\* false and none of the later stages (analysis, pattern classifier, LLM
\* fallback, matcher) runs for it.
C12_BlockedMessageStopsAtQuickFilter ==
    ((BlockedSender \/ PromoSubject) /\ stage # "received") =>
        /\ stage = "dropped"
        /\ nlp = NoNlpResult
        /\ classification = NoClassification
        /\ escalation = NoEscalation
        /\ match_result = NoMatch

\* The message with every absent field replaced by the empty string.
Blanked(email) ==
    [f \in DOMAIN email |-> IF Absent(email[f]) THEN <<>> ELSE email[f]]
HasAbsentField(email) == \E f \in DOMAIN email : Absent(email[f])

\* C13: for a message with an absent subject, sender address, sender name or
\* preview, the quick filter and the analysis do not raise and return what
\* they return for the message with the empty string in its place.
C13_AbsentFieldsAreEmptyStrings ==
    HasAbsentField(message) =>
        /\ stage # "raised"
        /\ stage # "received" =>
              (stage # "dropped") = quick_filter(Blanked(message))
        /\ Analyzed => nlp = analyze_email(Blanked(message), doc_ents)

\* The LLM call of the message ended in the except branch.
EscalationFailed ==
    escalation.outcome \in {"timeout", "malformed", "service_error",
                            "bad_request"}

\* The classification the message ends with: the fallback's when it ran.
FinalClassification ==
    IF escalation.outcome = "not_called" THEN classification
    ELSE escalation.result

\* C14: when the LLM fallback fails for a message (timeout, malformed
\* response, service error), the message's final classification is the
\* pattern classifier's category and confidence.
C14_FailedEscalationKeepsPatternResult ==
    EscalationFailed => FinalClassification = classification

\* The closed set of categories.
Categories ==
    {"application_received", "application_rejected", "interview_invite",
     "assessment_invite", "offer_letter", "follow_up", "general_hr",
     "not_job_related", "unknown"}
WellFormed(result) ==
    /\ result.category \in Categories
    /\ result.confidence >= 0
    /\ result.confidence <= 100

\* C15: every classification result, of the pattern classifier, of its
\* fallback and of the LLM call (succeeded or failed), has one of the nine
\* categories and a confidence in [0,1].
C15_ResultsInClosedSetAndUnitInterval ==
    /\ Classified => WellFormed(classification)
    /\ escalation.outcome # "not_called" => WellFormed(escalation.result)

\* The candidate set of the message and the similarity of the company name
\* of the application at position i to candidate c.
Candidates == EmailCompanies(message, nlp)
Score(i, c) == FuzzRatio(Lower(open_apps[i].company_name), c)
ExactAt(i) == Lower(open_apps[i].company_name) \in Candidates
SameFraction(x, y) == x.num * y.den = y.num * x.den

\* C16: whenever some application's lower-cased company name is an element
\* of the candidate set, the matcher returns an application with such an
\* exact match at confidence exactly 0.95, whatever the similarity scores of
\* the other applications and wherever they stand in the list.
C16_ExactMatchWinsAt095 ==
    (stage = "matched" /\ \E i \in 1..Len(open_apps) : ExactAt(i)) =>
        /\ match_result.confidence = [num |-> 95, den |-> 100]
        /\ \E i \in 1..Len(open_apps) :
              /\ open_apps[i].id = match_result.id
              /\ ExactAt(i)

\* The exact match stands behind an application that is no exact match and
\* has a similarity above the threshold.
C16_Witness ==
    /\ stage = "matched"
    /\ Len(open_apps) >= 2
    /\ ~ExactAt(1)
    /\ \E c \in Candidates : Greater(Score(1, c), FuzzThreshold)
    /\ ExactAt(2)
    /\ match_result.id = 2

\* The (application position, candidate) pairs, their scores, the pairs of
\* highest score and the first position that has one.
Pairs == (1..Len(open_apps)) \X Candidates
ScoreTable == [p \in Pairs |-> Score(p[1], p[2])] @@ <<>>
TopPairsOf(sc) ==
    {p \in DOMAIN sc : \A q \in DOMAIN sc : ~Greater(sc[q], sc[p])}
FirstOf(tops) ==
    CHOOSE i \in {p[1] : p \in tops} : \A p \in tops : i <= p[1]

\* C17: with no exact match, the matcher returns the application of the
\* highest similarity over all (application, candidate) pairs, at confidence
\* score/100, exactly when that score exceeds 70, the first such application
\* in list order on equal scores, and no match otherwise.
C17_BestFuzzyMatchAboveThreshold ==
    (stage = "matched" /\ ~\E i \in 1..Len(open_apps) : ExactAt(i)) =>
        LET sc == ScoreTable
            tops == TopPairsOf(sc)
        IN  IF tops # {} /\ \E p \in tops : Greater(sc[p], FuzzThreshold)
            THEN /\ match_result.id = open_apps[FirstOf(tops)].id
                 /\ \E p \in tops :
                       SameFraction(match_result.confidence,
                                    [num |-> sc[p].num, den |-> sc[p].den * 100])
            ELSE match_result = NoMatch

\* Two applications share the highest score, which is above the threshold,
\* and the first of them is returned.
C17_Witness ==
    /\ stage = "matched"
    /\ ~\E i \in 1..Len(open_apps) : ExactAt(i)
    /\ LET sc == ScoreTable
           tops == TopPairsOf(sc)
       IN  /\ Cardinality({p[1] : p \in tops}) >= 2
           /\ \E p \in tops : Greater(sc[p], FuzzThreshold)
           /\ match_result.id = open_apps[FirstOf(tops)].id
           /\ match_result.id # NoId

\* The titles of the returned insights, in order.
Titles == [k \in 1..Len(insights) |-> insights[k].title]
HasInsight(title) == \E k \in 1..Len(insights) : insights[k].title = title

\* C18: for an empty application set the generator returns exactly one
\* insight, the onboarding tip, and evaluates no other rule.
C18_EmptySetGivesOnboardingTipOnly ==
    (stage = "answered" /\ portfolio = <<>>) =>
        /\ Len(insights) = 1
        /\ insights[1].title = "Start applying!"
        /\ insights[1].type = "tip"
        /\ RulesEvaluated(portfolio) = {}

C18_Witness ==
    /\ stage = "answered"
    /\ portfolio = <<>>
    /\ Titles = <<"Start applying!">>

\* The place of an insight in the order of the rules.
RuleRank(title) ==
    CASE title = "Referrals work best for you" -> 1
      [] title = "High ghost rate" -> 2
      [] title \in {"Great momentum!", "Keep the momentum"} -> 3
      [] title = "Strong interview rate" -> 4
      [] OTHER -> 0
GhostedCount ==
    Cardinality({k \in 1..Len(portfolio) : portfolio[k].status = "ghosted"})

\* C19: for a non-empty application set the generator returns at most 5
\* insights, in the order best source, high ghost rate, weekly momentum,
\* interview conversion, and the high-ghost-rate warning is among them
\* whenever ghosted-count / total-count exceeds 0.3.
C19_AtMostFiveInRuleOrderWithGhostWarning ==
    (stage = "answered" /\ portfolio # <<>>) =>
        /\ Len(insights) <= 5
        /\ \A k \in 1..Len(insights) : RuleRank(insights[k].title) >= 1
        /\ \A j, k \in 1..Len(insights) :
              j < k => RuleRank(insights[j].title) < RuleRank(insights[k].title)
        /\ (10 * GhostedCount > 3 * Len(portfolio)) => HasInsight("High ghost rate")

\* All four rules fire, with a ghost rate between 0.3 and 0.5.
C19_Witness ==
    /\ stage = "answered"
    /\ 10 * GhostedCount > 3 * Len(portfolio)
    /\ 10 * GhostedCount < 5 * Len(portfolio)
    /\ Titles = <<"Referrals work best for you", "High ghost rate",
                  "Great momentum!", "Strong interview rate">>

\* The applications dated in the current 7-day window and in the prior one.
CurrentCount ==
    Cardinality({k \in 1..Len(portfolio) :
                    now - portfolio[k].applied_date \in 0..6})
PriorCount ==
    Cardinality({k \in 1..Len(portfolio) :
                    now - portfolio[k].applied_date \in 7..13})

\* C20: the momentum rule emits the success insight exactly when the current
\* count is greater than the prior count, the tip exactly when the current
\* count is less than the prior count and less than 5, and never both.
C20_MomentumRule ==
    stage = "answered" =>
        /\ HasInsight("Great momentum!") <=> CurrentCount > PriorCount
        /\ HasInsight("Keep the momentum") <=>
              (CurrentCount < PriorCount /\ CurrentCount < 5)
        /\ ~(HasInsight("Great momentum!") /\ HasInsight("Keep the momentum"))

\* Fewer applications than the week before, but 5 of them: no momentum
\* insight.
C20_Witness ==
    /\ stage = "answered"
    /\ CurrentCount = 5
    /\ PriorCount = 6
    /\ ~HasInsight("Great momentum!")
    /\ ~HasInsight("Keep the momentum")

(***************************************************************************)
(* Properties of the web client                                            *)
(***************************************************************************)
Settles(kind) == gmail'.inflight[kind] = gmail.inflight[kind] - 1

CachesUntouched ==
    /\ gmail'.pending_cache = gmail.pending_cache
    /\ gmail'.applications_cache = gmail.applications_cache

\* C21: a successful confirm invalidates the pending-leads cache and the
\* applications cache; a successful reject invalidates the pending-leads
\* cache and leaves the applications cache as it was; a confirm or reject
\* that fails leaves both caches as they were.
C21_SettledLeadInvalidatesCaches ==
    [][/\ (Settles("confirm") /\ gmail'.toast = "Application confirmed")
            => /\ gmail'.pending_cache = "stale"
               /\ gmail'.applications_cache = "stale"
       /\ (Settles("reject") /\ gmail'.toast = "Application dismissed")
            => /\ gmail'.pending_cache = "stale"
               /\ gmail'.applications_cache = gmail.applications_cache
       /\ (Settles("confirm") /\ gmail'.toast = "Failed to confirm application")
            => CachesUntouched
       /\ (Settles("reject") /\ gmail'.toast = "Failed to dismiss application")
            => CachesUntouched]_vars

\* A reject succeeded while both caches were fresh, and only the pending
\* leads went stale.
C21_Witness ==
    /\ gmail.toast = "Application dismissed"
    /\ gmail.inflight["reject"] = 0
    /\ gmail.pending_cache = "stale"
    /\ gmail.applications_cache = "fresh"
    /\ gmail.timers = 0
    /\ gmail.silent_syncs = 0

\* C27: a hook instance triggers the silent sync at most once, exactly once
\* as soon as a render committed with autoSync enabled, and never when no
\* render did.
C27_SilentSyncExactlyOnce ==
    /\ gmail.silent_syncs <= 1
    /\ gmail.enabled_once <=> gmail.silent_syncs = 1

\* Three renders, the last with autoSync on: one sync was triggered and resolved.
C27_Witness ==
    /\ gmail.renders = 3
    /\ gmail.deps = "true"
    /\ gmail.silent_syncs = 1
    /\ gmail.sync_inflight = 0
    /\ gmail.timers = 2

LastIndex(xs) == MathMax(Len(xs) - 1, 0)

\* C22: whatever keys were pressed and however the list changed, an empty
\* list included, the selected index of the applications list and of the
\* command palette is never negative and never beyond the last item.
C22_SelectedIndexWithinList ==
    /\ kbd.selectedIndex >= 0
    /\ kbd.selectedIndex <= LastIndex(kbd.items)
    /\ kbd.paletteIndex >= 0
    /\ kbd.paletteIndex <= LastIndex(filteredCommands(kbd.query))

\* The part of C22 about Enter: the select action runs only for an item
\* that exists at the selected index.
C22_EnterSelectsExistingItem ==
    [][/\ kbd'.selected # kbd.selected
            => /\ kbd'.key = "Enter"
               /\ Defined(kbd.items, kbd.selectedIndex)
               /\ kbd'.selected = kbd.items[kbd.selectedIndex + 1]
       /\ kbd'.ran # kbd.ran
            => /\ kbd'.key = "Enter"
               /\ Defined(filteredCommands(kbd.query), kbd.paletteIndex)
               /\ kbd'.ran =
                    filteredCommands(kbd.query)[kbd.paletteIndex + 1].id]_vars

\* C23: an Escape key press closes every modal that is open, the command
\* palette and the add-application modal alike.
C23_EscapeClosesOpenModal ==
    [][kbd'.key = "Escape"
          => /\ ~kbd'.isCommandPaletteOpen
             /\ ~kbd'.isAddModalOpen]_vars

\* The part of C23 about the command palette alone.
C23_EscapeClosesPalette ==
    [][kbd'.key = "Escape" => ~kbd'.isCommandPaletteOpen]_vars

\* C24: on a route that is neither /login nor /auth/callback nor below
\* them, AuthGuard renders nothing while the user is unauthenticated:
\* before mount, during the initial check and after a logout.
C24_NothingRenderedWhileUnauthenticated ==
    (~isPublicRoute(auth.pathname) /\ ~auth.isAuthenticated)
        => AuthGuardRender(auth) = "null"

\* The part of C24 up to the end of the first check: nothing is rendered on
\* a protected route before mount and while isChecking is set.
C24_NothingRenderedDuringCheck ==
    (~isPublicRoute(auth.pathname) /\ (~auth.mounted \/ auth.isChecking))
        => AuthGuardRender(auth) = "null"

SessionOf(s) == [user |-> s.user, accessToken |-> s.accessToken,
                 isAuthenticated |-> s.isAuthenticated]

StoreOf(s) == [user |-> s.user, accessToken |-> s.accessToken,
               isAuthenticated |-> s.isAuthenticated,
               persisted |-> s.persisted, api_token |-> s.api_token]

CallbackSettles == auth.callback = "fetching" /\ auth'.callback = "done"

\* C25: the callback page calls setAuth(user, token) only after /auth/me,
\* requested with that token, answered OK; without an access_token it
\* redirects to /login?error=no_token; when the request is not OK or throws
\* it redirects to /login?error=auth_failed; in both failure cases the auth
\* store is left as it was.
C25_SetAuthOnlyAfterOkResponse ==
    [][/\ (auth'.isAuthenticated /\ SessionOf(auth') # SessionOf(auth))
            => /\ CallbackSettles
               /\ auth'.me = [token |-> auth'.accessToken, status |-> "ok"]
               /\ auth.me.token = auth'.accessToken
       /\ (auth.callback = "mounted" /\ auth'.callback = "done")
            => /\ auth'.pending_push = Url(LoginPath, "error=no_token")
               /\ StoreOf(auth') = StoreOf(auth)
       /\ (CallbackSettles /\ auth'.me.status # "ok")
            => /\ auth'.pending_push = Url(LoginPath, "error=auth_failed")
               /\ StoreOf(auth') = StoreOf(auth)
       /\ (CallbackSettles /\ auth'.me.status = "ok")
            => /\ auth'.pending_push = Url(Home, "")
               /\ auth'.accessToken = auth.me.token]_vars

\* /auth/me refused the token of the callback while another session was
\* stored: the redirect to the login page is pending and the session is
\* the one that was there.
C25_Witness ==
    /\ auth.callback = "done"
    /\ auth.me.status = "not_ok"
    /\ auth.pending_push = Url(LoginPath, "error=auth_failed")
    /\ auth.isAuthenticated
    /\ auth.accessToken # auth.me.token
    /\ auth.api_token = auth.accessToken

\* C26: isAuthenticated is true exactly when user and accessToken are both
\* non-null, in the store and in its persisted copy; and once initialize
\* has run after the latest load, the API client's token is the store's
\* accessToken.
C26_StoreConsistentAndClientTokenInSync ==
    /\ auth.isAuthenticated <=> (auth.user # Null /\ auth.accessToken # Null)
    /\ auth.persisted.isAuthenticated
          <=> (auth.persisted.user # Null /\ auth.persisted.accessToken # Null)
    /\ auth.mounted => auth.api_token = auth.accessToken

\* A reload with a stored session, then initialize: the client holds the
\* stored token although setAuth did not run in this page.
C26_Witness ==
    /\ auth.budget < MaxUserActions
    /\ auth.mounted
    /\ auth.me.status = "none"
    /\ auth.accessToken \in Tokens
    /\ auth.api_token = auth.accessToken

UserIdle == auth.budget = 0
OnProtectedRoute == ~isPublicRoute(auth.pathname)
ArrivedHome ==
    /\ auth.pathname = Home
    /\ auth.isAuthenticated
    /\ AuthGuardRender(auth) = "children"

\* C30 as stated, the user doing nothing more: an unauthenticated user on
\* a protected route eventually arrives at /login, an authenticated user
\* on /login eventually arrives at '/' with the protected content
\* rendered, and the redirects stop.
C30_Original ==
    /\ (UserIdle /\ ~auth.isAuthenticated /\ OnProtectedRoute)
          ~> (auth.pathname = LoginPath)
    /\ (UserIdle /\ auth.isAuthenticated /\ auth.pathname = LoginPath)
          ~> ArrivedHome
    /\ <>[](auth.pending_push = NoPush)

\* C30: the user doing nothing more, an unauthenticated user on a protected
\* route eventually arrives at /login unless a sign-in still in flight
\* authenticates it first; an authenticated user on /login eventually
\* arrives at '/' with the protected content rendered unless a sign-out
\* still in flight logs it out first; and the redirects stop (no cycle).
C30_RedirectsReachTheirTarget ==
    /\ (UserIdle /\ ~auth.isAuthenticated /\ OnProtectedRoute)
          ~> (auth.pathname = LoginPath \/ auth.isAuthenticated)
    /\ (UserIdle /\ auth.isAuthenticated /\ auth.pathname = LoginPath)
          ~> (ArrivedHome \/ ~auth.isAuthenticated)
    /\ <>[](auth.pending_push = NoPush)

\* An authenticated user has been redirected from /login to '/', where the
\* content is rendered: the guard's last check ran on /login and the user
\* did not navigate.
C30_Witness ==
    /\ ArrivedHome
    /\ auth.guard_deps = <<TRUE, TRUE, LoginPath>>
    /\ auth.budget = MaxUserActions

\* The status a drop target stands for: a column its own status, a card
\* the status of its application, anything else none.
ResolvedStatus(b, over) ==
    IF over \in ColumnStatuses THEN over
    ELSE IF over \in CardIds /\ b.applications[over] # Gone
         THEN b.applications[over]
         ELSE Null

Dropped == board.activeId # Null /\ board'.activeId = Null
Requested == board'.requests # board.requests

HttpScheme == <<"h","t","t","p",":","/","/">>
HttpsScheme == <<"h","t","t","p","s",":","/","/">>

\* The fields of the form that offend the rules of C29.
Offending(data) ==
    {k \in {"company"} : trim(data.company) = <<>>}
    \cup {k \in {"role"} : trim(data.role) = <<>>}
    \cup {k \in {"url"} : /\ data.url # <<>>
                          /\ ~IsPrefix(HttpScheme, data.url)
                          /\ ~IsPrefix(HttpsScheme, data.url)}
    \cup {k \in {"salaryMax"} : /\ data.salaryMin # <<>>
                                /\ data.salaryMax # <<>>
                                /\ ~(NumberOf(data.salaryMax) > NumberOf(data.salaryMin))}

Submitted == form'.submits = form.submits + 1
Created == form'.creates # form.creates

\* C29: a create request is issued only on a submit, and only when company
\* and role are non-blank after trimming, the URL is empty or starts with
\* http:// or https://, and the max salary, when both are given, is greater
\* than the min; in every other case the submit issues no request and
\* records an error for each offending field.
C29_CreateOnlyWhenValid ==
    [][/\ Created => Submitted
       /\ Submitted =>
            IF Offending(form.formData) = {}
            THEN Created
            ELSE /\ ~Created
                 /\ \A k \in Offending(form.formData) : form'.errors[k] # ""]_vars

\* The part of C29 about the required fields: a blank company or role
\* stops the submit with an error on the field.
C29_BlankRequiredFieldStopsSubmit ==
    [][Submitted =>
         \A k \in {"company", "role"} :
            trim(form.formData[k]) = <<>>
               => ~Created /\ form'.errors[k] # ""]_vars

====
